---------------------------- MODULE Spec2Model ----------------------------
(***************************************************************************)
(* A model of the oscars mark-sweep collector (MarkSweepGarbageCollector), *)
(* its arena allocator (arena3) and the Root / Gc handles.                 *)
(*                                                                         *)
(* Managed values are list nodes in the style of the `S { next:            *)
(* Option<Gc<S>> }` type of the gc_recursion test: every GcBox holds at    *)
(* most one traced Gc pointer, which GcRefCell mutation may redirect.      *)
(* Node and ephemeron identifiers are ghost names of allocations; the      *)
(* address of an allocation is its slot (arena buffer, slot index).        *)
(*                                                                         *)
(* A collection cycle is split at the points where it calls user code      *)
(* (finalize hooks and destructors): while such a callback runs, the       *)
(* mutator operations are enabled again, exactly as the code allows an     *)
(* allocation from inside a finalizer or a destructor.                     *)
(***************************************************************************)
EXTENDS Integers, Sequences, FiniteSets, TLC

\* ------------------------------------------------------------------ bounds
MaxObj == 3
MaxEph == 2
MaxMemEph == 1
MaxRaw == 1
MaxClones == 1
MaxSets == 1
MaxCycles == 2
MaxMaps == 1
MaxInserts == 2
MaxRemoves == 1
MaxGraphInserts == 1
MaxCountOps == 3
MaxAllocs == 3
MaxRawOps == 3
MaxRawObj == 2
MaxGarbageSlot == 1
MaxGarbageAllocs == 1
MaxRevivals == 1
MaxFinalizeCalls == 1
MaxMarks == 2
MaxReuseAllocs == 6

\* ------------------------------------------------- configuration constants
ArenaSize == 128
HeapThreshold == 256
GcBoxSize == 32
EphemeronSize == 48
RawBlockSize == 32
RawAlign == 8
RawBigSize == 4608

\* usize::MAX, the cache value for "no arena cached"; the largest integer of
\* the model stands for it (it is only compared with arena indexes)
U16Max == 65535
UsizeMax == 2147483647

\* Option<Gc<T>>::None in a node's field
NULL == 0

\* a free-list link read from a slot that holds a value: no slot in particular
GARBAGE == -1

Min(a, b) == IF a < b THEN a ELSE b
Max(a, b) == IF a > b THEN a ELSE b
SatSub(a, b) == IF a > b THEN a - b ELSE 0

Range(s) == {s[i] : i \in 1..Len(s)}
RemoveAt(s, i) == SubSeq(s, 1, i - 1) \o SubSeq(s, i + 1, Len(s))

\* ---------------------------------------------------------- header flags
WHITE_MARK_BITS == 0
BLACK_MARK_BITS == 3
GREY_MARK_BITS == 1

ColorBits(f) == f % 4

is_white(f) == ColorBits(f) = 0
is_black(f) == ColorBits(f) = BLACK_MARK_BITS
is_grey(f) == ColorBits(f) = GREY_MARK_BITS

\* mark_grey that ORs the grey bit in without clearing the color bits (a mutant)
mark_grey_or(f) == IF f % 2 = 1 THEN f ELSE f + GREY_MARK_BITS

mark_grey(f) == (f - ColorBits(f)) + GREY_MARK_BITS
mark_black(f) == (f - ColorBits(f)) + BLACK_MARK_BITS
mark_white(f) == f - ColorBits(f)

\* GcHeader::mark(color) on the flag byte f
mark(f, color) ==
    CASE color = "White" -> mark_white(f)
      [] color = "Black" -> mark_black(f)
      [] color = "Grey" -> mark_grey(f)

new_white == WHITE_MARK_BITS
new_black == BLACK_MARK_BITS

TraceColors == {"White", "Black"}

flip(c) == IF c = "White" THEN "Black" ELSE "White"

\* GcHeader::new_typed::<IS_WHITE>: the color is inverted on purpose
new_typed(is_white_target) == IF is_white_target THEN new_black ELSE new_white

\* GcBox::new_typed_in: header of a node created under trace color `color`
new_typed_in(color) == IF color = "White" THEN new_typed(TRUE) ELSE new_typed(FALSE)

\* GcBox::is_reachable
is_reachable_flags(f, color) ==
    IF color = "Black" THEN is_black(f) \/ is_grey(f)
    ELSE is_white(f) \/ is_grey(f)

\* the final mark of trace_impl under `color`
mark_done(f, color) == IF color = "White" THEN mark_white(f) ELSE mark_black(f)

\* the guard of trace_impl: the header still carries the unmarked color
needs_trace(f, color) ==
    IF color = "White" THEN is_black(f) ELSE is_white(f)

\* ------------------------------------------------------------------ Arena
\* An arena is one buffer [bitmap][slots]; `id` names the buffer, so that a
\* pointer is (buffer, slot index) for a typed slot and (buffer, byte offset)
\* for a raw block.  `bitmap` is the set of slot indices whose bit is 1.
try_init(slot_size, total_capacity, max_align, id) ==
    LET estimated == total_capacity \div slot_size
        bitmap_words == (estimated + 63) \div 64
        bitmap_bytes == bitmap_words * 8
        slot_area == SatSub(total_capacity, bitmap_bytes)
    IN  [id |-> id,
         slot_size |-> slot_size,
         slot_count |-> slot_area \div slot_size,
         size |-> total_capacity,
         align |-> max_align,
         bitmap_words |-> bitmap_words,
         bump |-> 0,
         free_list |-> << >>,
         live |-> 0,
         active_raw_allocs |-> 0,
         bitmap |-> {}]

bitmap_bytes(a) == a.bitmap_words * 8

owns(a, ptr) == ptr.arena = a.id /\ ptr.idx >= 0 /\ ptr.idx < a.slot_count

\* Arena::mark_slot setting the bit of the slot after ptr (a mutant)
arena_mark_slot_next(a, ptr) == [a EXCEPT !.bitmap = @ \cup {ptr.idx + 1}]

\* Arena::mark_slot
arena_mark_slot(a, ptr) == [a EXCEPT !.bitmap = @ \cup {ptr.idx}]

\* Arena::alloc_slot that never looks at the free list (a mutant)
alloc_slot_bump_only(a) ==
    IF a.bump >= a.slot_count
    THEN [ok |-> FALSE, arena |-> a, idx |-> 0]
    ELSE [ok |-> TRUE,
          arena |-> [a EXCEPT !.bump = @ + 1,
                              !.bitmap = @ \cup {a.bump},
                              !.live = @ + 1],
          idx |-> a.bump]

\* Arena::alloc_slot: [ok, arena, idx]
alloc_slot(a) ==
    IF a.free_list # << >>
    THEN [ok |-> TRUE,
          arena |-> [a EXCEPT !.free_list = Tail(@),
                              !.bitmap = @ \cup {Head(a.free_list)},
                              !.live = @ + 1],
          idx |-> Head(a.free_list)]
    ELSE IF a.bump >= a.slot_count
    THEN [ok |-> FALSE, arena |-> a, idx |-> 0]
    ELSE [ok |-> TRUE,
          arena |-> [a EXCEPT !.bump = @ + 1,
                              !.bitmap = @ \cup {a.bump},
                              !.live = @ + 1],
          idx |-> a.bump]

\* Arena::free_slot with the freed slot put at the far end of the list (a
\* mutant)
arena_free_slot_fifo(a, ptr) ==
    [a EXCEPT !.bitmap = @ \ {ptr.idx},
              !.free_list = @ \o <<ptr.idx>>,
              !.live = SatSub(@, 1)]

\* Arena::free_slot.  The list is embedded: the old head is written into the
\* freed slot and the slot becomes the head.  For a slot that is already linked
\* in, the write redirects its old occurrence too, so the chain runs up to that
\* occurrence and from there reads what the next user of the slot stored in it.
arena_free_slot(a, ptr) ==
    LET pushed == <<ptr.idx>> \o a.free_list
        again == {k \in 2..Len(pushed) : pushed[k] = ptr.idx}
        second == CHOOSE k \in again : \A j \in again : k <= j
    IN  [a EXCEPT !.bitmap = @ \ {ptr.idx},
                  !.free_list = IF again = {} THEN pushed
                                ELSE SubSeq(pushed, 1, second) \o <<GARBAGE>>,
                  !.live = SatSub(@, 1)]

\* Arena::try_alloc_bytes: [ok, arena, off]; the buffer is aligned to a.align
arena_try_alloc_bytes(a, size, align) ==
    LET base == Max(bitmap_bytes(a), a.bump)
        padding == (align - (base % align)) % align
        offset == base + padding
    IN  IF align > a.align \/ offset + size > a.size
        THEN [ok |-> FALSE, arena |-> a, off |-> 0]
        ELSE [ok |-> TRUE,
              arena |-> [a EXCEPT !.bump = offset + size,
                                  !.active_raw_allocs = @ + 1],
              off |-> offset]

\* Arena::dealloc_bytes leaving the count alone (a mutant)
arena_dealloc_bytes_none(a) == a

\* Arena::dealloc_bytes
arena_dealloc_bytes(a) == [a EXCEPT !.active_raw_allocs = SatSub(@, 1)]

\* Arena::run_drop_check without the raw-allocation test (a mutant)
run_drop_check_no_raw(a) ==
    /\ a.live = 0
    /\ a.bitmap = {}

\* Arena::run_drop_check
run_drop_check(a) ==
    /\ ~(a.active_raw_allocs > 0)
    /\ ~(a.live > 0)
    /\ a.bitmap = {}

\* --------------------------------------------------------- ArenaAllocator
SIZE_CLASSES == <<16, 24, 32, 48, 64, 96, 128, 192, 256, 512, 1024, 2048>>

\* index (from 1) of the first class >= size, the last class if there is none
size_class_index_for(size) ==
    LET fits == {i \in 1..Len(SIZE_CLASSES) : SIZE_CLASSES[i] >= size}
    IN  IF fits = {} THEN Len(SIZE_CLASSES)
        ELSE CHOOSE i \in fits : \A j \in fits : i <= j

\* the debug_assert! of size_class_index_for: some class holds the size
size_class_fits(size) == \E i \in 1..Len(SIZE_CLASSES) : SIZE_CLASSES[i] >= size

NewAllocator ==
    [heap_threshold |-> HeapThreshold,
     arena_size |-> ArenaSize,
     current_heap_size |-> 0,
     typed_arenas |-> << >>,
     raw_arenas |-> << >>,
     free_cache |-> UsizeMax,
     alloc_cache |-> [i \in 1..Len(SIZE_CLASSES) |-> UsizeMax],
     next_id |-> 1]

arenas_len(al) == Len(al.typed_arenas) + Len(al.raw_arenas)

is_below_threshold_whole(al) == al.current_heap_size <= al.heap_threshold

\* ArenaAllocator::is_below_threshold
is_below_threshold(al) ==
    LET margin == al.heap_threshold \div 4
    IN  al.current_heap_size <= SatSub(al.heap_threshold, margin)

\* the last index i of arenas with P(i), 0 if none (a reverse scan)
LastIndex(n, P(_)) ==
    LET c == {i \in 1..n : P(i)}
    IN  IF c = {} THEN 0 ELSE CHOOSE i \in c : \A j \in c : j <= i

\* ArenaAllocator::try_alloc for an item of `size` bytes: [ok, al, ptr]
try_alloc(al, size) ==
    LET needed == Max(size, 8)
        sc_idx == size_class_index_for(needed)
        slot_size == SIZE_CLASSES[sc_idx]
        n == Len(al.typed_arenas)
        cached_idx == al.alloc_cache[sc_idx]
        cache_hit ==
            /\ cached_idx < n
            /\ al.typed_arenas[cached_idx + 1].slot_size = slot_size
            /\ alloc_slot(al.typed_arenas[cached_idx + 1]).ok
        Fits(i) ==
            /\ al.typed_arenas[i].slot_size = slot_size
            /\ alloc_slot(al.typed_arenas[i]).ok
        found == LastIndex(n, Fits)
        total == Max(al.arena_size, slot_size * 4)
        new_arena == try_init(slot_size, total, 16, al.next_id)
    IN  IF cache_hit
        THEN LET r == alloc_slot(al.typed_arenas[cached_idx + 1])
             IN  [ok |-> TRUE,
                  al |-> [al EXCEPT !.typed_arenas[cached_idx + 1] = r.arena],
                  ptr |-> [arena |-> r.arena.id, idx |-> r.idx]]
        ELSE IF found # 0
        THEN LET r == alloc_slot(al.typed_arenas[found])
             IN  [ok |-> TRUE,
                  al |-> [al EXCEPT !.typed_arenas[found] = r.arena,
                                    !.alloc_cache[sc_idx] = found - 1],
                  ptr |-> [arena |-> r.arena.id, idx |-> r.idx]]
        ELSE LET r == alloc_slot(new_arena)
                 grown == [al EXCEPT !.current_heap_size = @ + new_arena.size,
                                     !.next_id = @ + 1]
             IN  IF ~r.ok
                 THEN [ok |-> FALSE, al |-> grown, ptr |-> [arena |-> 0, idx |-> 0]]
                 ELSE [ok |-> TRUE,
                       al |-> [grown EXCEPT
                                 !.typed_arenas = Append(@, r.arena),
                                 !.alloc_cache[sc_idx] = n],
                       ptr |-> [arena |-> r.arena.id, idx |-> r.idx]]

\* ArenaAllocator::free_slot (a pointer no typed arena owns is ignored, as in
\* a release build)
free_slot(al, ptr) ==
    LET n == Len(al.typed_arenas)
        cached == al.free_cache
        Owner(i) == owns(al.typed_arenas[i], ptr)
        found == LastIndex(n, Owner)
    IN  IF cached < n /\ owns(al.typed_arenas[cached + 1], ptr)
        THEN [al EXCEPT !.typed_arenas[cached + 1] = arena_free_slot(@, ptr)]
        ELSE IF found # 0
        THEN [al EXCEPT !.typed_arenas[found] = arena_free_slot(@, ptr),
                        !.free_cache = found - 1]
        ELSE al

\* ArenaAllocator::try_alloc_bytes: [ok, al, ptr]
try_alloc_bytes(al, size, align) ==
    LET n == Len(al.raw_arenas)
        last_ok == n > 0 /\ arena_try_alloc_bytes(al.raw_arenas[n], size, align).ok
        margin == 64
        total == Max(al.arena_size, size + align + margin)
        max_align == Max(align, 16)
        raw_arena == try_init(8, total, max_align, al.next_id)
        grown == [al EXCEPT !.current_heap_size = @ + raw_arena.size,
                            !.next_id = @ + 1]
    IN  IF last_ok
        THEN LET r == arena_try_alloc_bytes(al.raw_arenas[n], size, align)
             IN  [ok |-> TRUE,
                  al |-> [al EXCEPT !.raw_arenas[n] = r.arena],
                  ptr |-> [arena |-> r.arena.id, off |-> r.off, size |-> size]]
        ELSE LET r == arena_try_alloc_bytes(raw_arena, size, align)
             IN  IF ~r.ok
                 THEN [ok |-> FALSE, al |-> grown,
                       ptr |-> [arena |-> 0, off |-> 0, size |-> 0]]
                 ELSE [ok |-> TRUE,
                       al |-> [grown EXCEPT !.raw_arenas = Append(@, r.arena)],
                       ptr |-> [arena |-> r.arena.id, off |-> r.off, size |-> size]]

\* ArenaAllocator::dealloc_bytes
dealloc_bytes(al, ptr) ==
    LET n == Len(al.raw_arenas)
        Holds(i) ==
            /\ al.raw_arenas[i].id = ptr.arena
            /\ ptr.off < al.raw_arenas[i].size
        found == LastIndex(n, Holds)
    IN  IF found # 0
        THEN [al EXCEPT !.raw_arenas[found] = arena_dealloc_bytes(@)]
        ELSE al

\* ArenaAllocator::shrink_bytes_in_place rewinding whether or not the block is
\* the last one (a mutant)
shrink_bytes_in_place_any(al, ptr, old_size, new_size) ==
    LET n == Len(al.raw_arenas)
        Holds(i) ==
            /\ al.raw_arenas[i].id = ptr.arena
            /\ ptr.off < al.raw_arenas[i].size
        found == LastIndex(n, Holds)
    IN  IF found # 0
        THEN [ok |-> TRUE,
              al |-> [al EXCEPT !.raw_arenas[found].bump = ptr.off + new_size]]
        ELSE [ok |-> FALSE, al |-> al]

\* ArenaAllocator::shrink_bytes_in_place: [ok, al]
shrink_bytes_in_place(al, ptr, old_size, new_size) ==
    LET n == Len(al.raw_arenas)
        Holds(i) ==
            /\ al.raw_arenas[i].id = ptr.arena
            /\ ptr.off < al.raw_arenas[i].size
        found == LastIndex(n, Holds)
    IN  IF found # 0 /\ ptr.off + old_size = al.raw_arenas[found].bump
        THEN [ok |-> TRUE,
              al |-> [al EXCEPT !.raw_arenas[found].bump = ptr.off + new_size]]
        ELSE [ok |-> FALSE, al |-> al]

SelectArenas(s, Keep(_)) == SelectSeq(s, Keep)

RECURSIVE SumSizes(_)
SumSizes(s) == IF s = << >> THEN 0 ELSE Head(s).size + SumSizes(Tail(s))

\* ArenaAllocator::drop_dead_arenas
drop_dead_arenas(al) ==
    LET Keep(a) == ~run_drop_check(a)
        Dead(a) == run_drop_check(a)
        freed == SumSizes(SelectSeq(al.typed_arenas, Dead))
                 + SumSizes(SelectSeq(al.raw_arenas, Dead))
    IN  [al EXCEPT !.typed_arenas = SelectSeq(@, Keep),
                   !.raw_arenas = SelectSeq(@, Keep),
                   !.current_heap_size = SatSub(@, freed),
                   !.free_cache = UsizeMax,
                   !.alloc_cache = [i \in 1..Len(SIZE_CLASSES) |-> UsizeMax]]

\* ArenaAllocator::mark_slot: the first arena that owns the pointer
mark_slot(al, ptr) ==
    LET nt == Len(al.typed_arenas)
        nr == Len(al.raw_arenas)
        ft == {i \in 1..nt : owns(al.typed_arenas[i], ptr)}
        fr == {i \in 1..nr : owns(al.raw_arenas[i], ptr)}
    IN  IF ft # {}
        THEN LET i == CHOOSE i \in ft : \A j \in ft : i <= j
             IN  [al EXCEPT !.typed_arenas[i] = arena_mark_slot(@, ptr)]
        ELSE IF fr # {}
        THEN LET i == CHOOSE i \in fr : \A j \in fr : i <= j
             IN  [al EXCEPT !.raw_arenas[i] = arena_mark_slot(@, ptr)]
        ELSE al

\* ------------------------------------------------------------------ state
VARIABLES
    heap,                     \* GcBox nodes, by allocation name
    ephs,                     \* Ephemeron nodes, by allocation name
    allocator,                \* MarkSweepGarbageCollector.allocator
    root_queue,
    ephemeron_queue,
    pending_root_queue,
    pending_ephemeron_queue,
    trace_color,
    collect_needed,
    is_collecting,
    pc,                       \* where collect() stands
    cb,                       \* the user callback collect() is inside of
    sweep,                    \* the locals of run_sweep_phase
    cont,                     \* the allocation call that runs the deferred collect()
    raws,                     \* raw blocks handed out and not yet deallocated
    items,                    \* typed items taken straight from the allocator
    hist,                     \* history of the run (ghost)
    ops,                      \* mutator operations made so far, by kind
    weak_maps                 \* MarkSweepGarbageCollector.weak_maps

vars == <<heap, ephs, allocator, root_queue, ephemeron_queue,
          pending_root_queue, pending_ephemeron_queue, trace_color,
          collect_needed, is_collecting, pc, cb, sweep, cont, raws, items, hist, ops,
          weak_maps>>

Objs == 1..MaxObj
Ephs == 1..MaxEph

NoSlot == [arena |-> 0, idx |-> 0]
\* a GcBox: header (flags, root_count), the handle its value holds (next: a Gc,
\* or a Root when owns_root), its slot; handles (ghost): the Root handles to it
\* that the mutator holds outside the heap
Unborn == [st |-> "unborn", flags |-> 0, root_count |-> 0, next |-> NULL,
           owns_root |-> FALSE, slot |-> NoSlot, handles |-> 0]
UnbornEph == [st |-> "unborn", key |-> NULL, active |-> FALSE, vflags |-> 0,
              vnext |-> NULL, slot |-> NoSlot]

NoCb == [kind |-> "none", id |-> 0]
NoCont == [op |-> "none", arg |-> 0, arg2 |-> 0, cycles0 |-> 0]
NoSweep == [i |-> 1, droppables |-> << >>, ephemerons |-> << >>,
            still_alive_roots |-> << >>, still_alive |-> << >>]

Live(hp) == {o \in Objs : hp[o].st = "live"}
LiveEphs(es) == {e \in Ephs : es[e].st = "live"}
NextObj == Cardinality({o \in Objs : heap[o].st # "unborn"}) + 1
NextEph == Cardinality({e \in Ephs : ephs[e].st # "unborn"}) + 1

is_rooted_never(n) == FALSE

\* GcHeader::is_rooted
is_rooted(n) == n.root_count > 0

\* the nodes some Root handle points to
Rooted(hp) == {o \in Live(hp) : hp[o].root_count > 0}

\* the nodes reachable from `from` through traced Gc pointers
RECURSIVE ReachFrom(_, _)
ReachFrom(hp, from) ==
    LET more == {hp[o].next : o \in from} \ ({NULL} \cup from)
    IN  IF more = {} THEN from ELSE ReachFrom(hp, from \cup more)

Reachable(hp) == ReachFrom(hp, Rooted(hp))

\* the nodes reachable when a weak key keeps its value alive: from the roots,
\* and from the value of every active ephemeron whose key is reachable
RECURSIVE EphReachFrom(_, _, _)
EphReachFrom(hp, es, from) ==
    LET r == ReachFrom(hp, from)
        more == {es[e].vnext : e \in {x \in Ephs : /\ es[x].st = "live"
                                                    /\ es[x].active
                                                    /\ es[x].key \in r}}
                  \ ({NULL} \cup r)
    IN  IF more = {} THEN r ELSE EphReachFrom(hp, es, r \cup more)

EphReachable(hp, es) == EphReachFrom(hp, es, Rooted(hp))

\* what the mutator can name: live nodes reachable from a Root handle
Accessible == {o \in Reachable(heap) : heap[o].st = "live"}

\* ------------------------------------------------------------------ trace
\* GcBox::trace_impl through the vtable trace_fn, following `next`.
\* panicAt: the node whose Trace::trace panics (NULL: none).
\* A freed node reached through a dangling pointer is undefined behaviour:
\* its header word holds the free-list link, so it reads as marked (ub) or
\* as unmarked, and then its stale `next` is followed.
RECURSIVE trace_fn(_, _, _, _, _, _)
trace_fn(hp, x, color, panicAt, ub, seen) ==
    IF x = NULL THEN [heap |-> hp, panicked |-> FALSE]
    ELSE IF hp[x].st # "live"
    THEN IF ub \/ x \in seen THEN [heap |-> hp, panicked |-> FALSE]
         ELSE trace_fn(hp, hp[x].next, color, panicAt, ub, seen \cup {x})
    ELSE IF ~needs_trace(hp[x].flags, color)
    THEN [heap |-> hp, panicked |-> FALSE]
    ELSE LET grey == [hp EXCEPT ![x].flags = mark_grey(@)]
         IN  IF x = panicAt THEN [heap |-> grey, panicked |-> TRUE]
             ELSE LET r == trace_fn(grey, grey[x].next, color, panicAt, ub, seen)
                  IN  IF r.panicked THEN r
                      ELSE [heap |-> [r.heap EXCEPT ![x].flags = mark_done(@, color)],
                            panicked |-> FALSE]

\* GcBox::is_reachable of a node (a freed node: undefined, reads as `ub`)
is_reachable(hp, x, color, ub) ==
    IF hp[x].st = "live" THEN is_reachable_flags(hp[x].flags, color) ELSE ub

\* Ephemeron is_reachable_fn: active and the key is marked
eph_is_reachable(hp, e, color, ub) ==
    e.active /\ is_reachable(hp, e.key, color, ub)

\* Ephemeron trace_fn: key.trace(color); value.trace(color)
eph_trace_fn(hp, es, e, color, panicAt, ub) ==
    LET k == trace_fn(hp, es[e].key, color, panicAt, ub, {})
    IN  IF k.panicked THEN [heap |-> k.heap, ephs |-> es, panicked |-> TRUE]
        ELSE IF ~needs_trace(es[e].vflags, color)
        THEN [heap |-> k.heap, ephs |-> es, panicked |-> FALSE]
        ELSE LET v == trace_fn(k.heap, es[e].vnext, color, panicAt, ub, {})
             IN  IF v.panicked
                 THEN [heap |-> v.heap,
                       ephs |-> [es EXCEPT ![e].vflags = mark_grey(@)],
                       panicked |-> TRUE]
                 ELSE [heap |-> v.heap,
                       ephs |-> [es EXCEPT ![e].vflags = mark_done(@, color)],
                       panicked |-> FALSE]

\* run_mark_phase, the loop over the root queue from position i
RECURSIVE mark_roots(_, _, _, _, _, _)
mark_roots(hp, q, i, color, panicAt, ub) ==
    IF i > Len(q) THEN [heap |-> hp, panicked |-> FALSE]
    ELSE IF hp[q[i]].st = "live" /\ is_rooted(hp[q[i]])
    THEN LET r == trace_fn(hp, q[i], color, panicAt, ub, {})
         IN  IF r.panicked THEN r
             ELSE mark_roots(r.heap, q, i + 1, color, panicAt, ub)
    ELSE mark_roots(hp, q, i + 1, color, panicAt, ub)

\* run_mark_phase, the loop over the ephemeron queue from position i
RECURSIVE mark_ephemerons(_, _, _, _, _, _, _, _)
mark_ephemerons(hp, es, al, q, i, color, panicAt, ub) ==
    IF i > Len(q) THEN [heap |-> hp, ephs |-> es, al |-> al, panicked |-> FALSE]
    ELSE IF eph_is_reachable(hp, es[q[i]], color, ub)
    THEN LET marked == mark_slot(al, es[q[i]].slot)
             r == eph_trace_fn(hp, es, q[i], color, panicAt, ub)
         IN  IF r.panicked
             THEN [heap |-> r.heap, ephs |-> r.ephs, al |-> marked, panicked |-> TRUE]
             ELSE mark_ephemerons(r.heap, r.ephs, marked, q, i + 1, color, panicAt, ub)
    ELSE mark_ephemerons(hp, es, al, q, i + 1, color, panicAt, ub)

\* run_mark_phase
run_mark_phase(hp, es, al, color, panicAt, ub) ==
    LET r == mark_roots(hp, root_queue, 1, color, panicAt, ub)
    IN  IF r.panicked
        THEN [heap |-> r.heap, ephs |-> es, al |-> al, panicked |-> TRUE]
        ELSE mark_ephemerons(r.heap, es, al, ephemeron_queue, 1, color, panicAt, ub)

\* WeakMapInner::prune_dead_entries: the entries whose ephemeron is reachable
\* are retained (the ephemeron of a stale entry is freed memory: undefined)
prune_dead_entries(m, hp, es, color, ub) ==
    [m EXCEPT !.entries =
        {en \in @ : IF es[en.ptr].st = "live"
                    THEN eph_is_reachable(hp, es[en.ptr], color, ub)
                    ELSE ub}]

\* sweep_trace_color, the retain over weak_maps: an alive map is pruned, the
\* inner allocation of a dropped WeakMap is reclaimed
RECURSIVE retain_weak_maps(_, _, _, _, _)
retain_weak_maps(maps, hp, es, color, ub) ==
    IF maps = << >> THEN << >>
    ELSE LET rest == retain_weak_maps(Tail(maps), hp, es, color, ub)
         IN  IF Head(maps).is_alive
             THEN <<prune_dead_entries(Head(maps), hp, es, color, ub)>> \o rest
             ELSE rest

NewHist ==
    [cycles |-> 0,            \* collect() calls started
     last |-> "none",         \* "running", or how the cycle just run ended
     rooted0 |-> {},          \* nodes with root_count > 0 when the cycle started
     reach0 |-> {},           \* nodes reachable from them when the cycle started
     ereach0 |-> {},          \* the same, through ephemeron values as well
     rq0 |-> << >>,           \* the queues when the cycle started
     eq0 |-> << >>,
     inactive0 |-> {},        \* ephemerons inactive when the cycle started
     color0 |-> "White",      \* trace_color when the cycle started
     freed |-> {},            \* nodes dropped and freed by the cycle
     freed_ephs |-> {},       \* ephemerons dropped and freed by the cycle
     born |-> {},             \* nodes allocated during the cycle
     born_ephs |-> {},        \* ephemerons allocated during the cycle
     born_dead |-> {},        \* nodes born with a header dead under the cycle's color
     revived |-> {},          \* nodes found rooted when their finalize returned
     steady |-> FALSE,        \* nothing happened since the last completed cycle
     steady0 |-> FALSE]       \* the cycle started from such a state

\* no mutator operation made yet; ret, removed, expect (ghost): what the last
\* WeakMap::remove returned, the ephemerons whose entries WeakMap::remove took
\* out, and the ephemeron whose value get(k) is to return; overflow, floor
\* (ghost): the last inc_roots panicked, the last dec_roots found the count 0
NoOps == [clones |-> 0, sets |-> 0, raws |-> 0, inserts |-> 0, removes |-> 0,
          ret |-> FALSE, removed |-> {}, expect |-> [o \in Objs |-> NULL],
          counts |-> 0, overflow |-> FALSE, floor |-> FALSE, allocs |-> 0,
          finalizes |-> 0]

Init ==
    /\ heap = [o \in Objs |-> Unborn]
    /\ ephs = [e \in Ephs |-> UnbornEph]
    /\ allocator = NewAllocator
    /\ root_queue = << >>
    /\ ephemeron_queue = << >>
    /\ pending_root_queue = << >>
    /\ pending_ephemeron_queue = << >>
    /\ trace_color = "White"
    /\ collect_needed = FALSE
    /\ is_collecting = FALSE
    /\ pc = "idle"
    /\ cb = NoCb
    /\ sweep = NoSweep
    /\ cont = NoCont
    /\ raws = {}
    /\ items = {}
    /\ hist = NewHist
    /\ ops = NoOps
    /\ weak_maps = << >>

\* the callback in progress runs user code: the finalize and drop of a node
\* whose value is a Root handle are those of Root itself
UserCb ==
    /\ cb # NoCb
    /\ ~(cb.kind \in {"finalize", "drop"} /\ heap[cb.id].owns_root)

\* ---------------------------------------------------------------- mutator
\* Mutator code runs between collector calls and inside the user callbacks
\* (finalize hooks, destructors) a collection makes.
UserTurn == pc = "idle" \/ UserCb

\* the history after a mutator operation: an operation outside a cycle ends
\* the "just after collect()" window
HistMut == IF pc = "idle" \/ pc = "resume"
           THEN [NewHist EXCEPT !.cycles = hist.cycles]
           ELSE hist

\* collect() with the weak maps pruned before the mark phase has run
CollectBeginPruneFirst(newCont, es, maps) ==
    /\ pc = "idle"
    /\ hist.cycles < MaxCycles
    /\ \E panicAt \in {NULL} \cup Live(heap), ub \in BOOLEAN :
         LET m == run_mark_phase(heap, es, allocator, trace_color, panicAt, ub)
             h == [NewHist EXCEPT
                     !.cycles = hist.cycles + 1,
                     !.last = IF m.panicked THEN "aborted" ELSE "running",
                     !.rooted0 = Rooted(heap),
                     !.reach0 = Reachable(heap),
                     !.ereach0 = EphReachable(heap, ephs),
                     !.rq0 = root_queue,
                     !.eq0 = ephemeron_queue,
                     !.inactive0 = {e \in LiveEphs(es) : ~es[e].active},
                     !.color0 = trace_color,
                     !.steady0 = hist.steady]
         IN  /\ heap' = m.heap
             /\ ephs' = m.ephs
             /\ allocator' = m.al
             /\ hist' = h
             /\ is_collecting' = ~m.panicked
             /\ pc' = IF m.panicked THEN "idle" ELSE "sweep_roots"
             /\ cont' = IF m.panicked THEN NoCont ELSE newCont
             /\ weak_maps' = IF m.panicked THEN maps
                              ELSE retain_weak_maps(maps, heap, es,
                                                    trace_color, ub)
    /\ sweep' = NoSweep
    /\ UNCHANGED <<root_queue, ephemeron_queue, pending_root_queue,
                   pending_ephemeron_queue, trace_color, cb, raws, items>>

\* collect() up to its first callback: the guard is taken and the mark phase
\* runs; a panicking Trace impl unwinds through CollectingGuard::drop.
\* newCont: the allocation call on whose behalf the cycle runs (NoCont for an
\* explicit collect()).
\* es, maps: the ephemerons and the weak maps as the caller left them
CollectBeginFrom(newCont, es, maps) ==
    /\ pc = "idle"
    /\ hist.cycles < MaxCycles
    /\ \E panicAt \in {NULL} \cup Live(heap), ub \in BOOLEAN :
         LET m == run_mark_phase(heap, es, allocator, trace_color, panicAt, ub)
             h == [NewHist EXCEPT
                     !.cycles = hist.cycles + 1,
                     !.last = IF m.panicked THEN "aborted" ELSE "running",
                     !.rooted0 = Rooted(heap),
                     !.reach0 = Reachable(heap),
                     !.ereach0 = EphReachable(heap, ephs),
                     !.rq0 = root_queue,
                     !.eq0 = ephemeron_queue,
                     !.inactive0 = {e \in LiveEphs(es) : ~es[e].active},
                     !.color0 = trace_color,
                     !.steady0 = hist.steady]
         IN  /\ heap' = m.heap
             /\ ephs' = m.ephs
             /\ allocator' = m.al
             /\ hist' = h
             /\ is_collecting' = ~m.panicked
             /\ pc' = IF m.panicked THEN "idle" ELSE "sweep_roots"
             /\ cont' = IF m.panicked THEN NoCont ELSE newCont
             /\ weak_maps' = IF m.panicked THEN maps
                              ELSE retain_weak_maps(maps, m.heap, m.ephs,
                                                    trace_color, ub)
    /\ sweep' = NoSweep
    /\ UNCHANGED <<root_queue, ephemeron_queue, pending_root_queue,
                   pending_ephemeron_queue, trace_color, cb, raws, items>>

CollectBegin(newCont) == CollectBeginFrom(newCont, ephs, weak_maps)

\* MarkSweepGarbageCollector::collect, called by the mutator
Collect ==
    /\ UNCHANGED ops
    /\ CollectBegin(NoCont)
    /\ UNCHANGED collect_needed

\* the deferred collection at the top of an allocation call
DeferredCollect(op, arg, arg2) ==
    /\ collect_needed /\ ~is_collecting
    /\ collect_needed' = FALSE
    /\ CollectBegin([op |-> op, arg |-> arg, arg2 |-> arg2, cycles0 |-> hist.cycles])

\* alloc_gc_node after the deferred-collection test, then Root::new_in's
\* inc_roots: the new node `NextObj` holds a Gc to n, or (own) the Root handle
\* to n that the caller moved into it
AllocNodeNow(n, own) ==
    LET id == NextObj
        r == try_alloc(allocator, GcBoxSize)
        node == [st |-> "live", flags |-> new_typed_in(trace_color),
                 root_count |-> 1, next |-> n, owns_root |-> own, slot |-> r.ptr,
                 handles |-> 1]
    IN  /\ allocator' = r.al
        /\ IF r.ok
           THEN /\ heap' = IF own
                           THEN [heap EXCEPT ![id] = node, ![n].handles = @ - 1]
                           ELSE [heap EXCEPT ![id] = node]
                /\ collect_needed' = (collect_needed \/ ~is_below_threshold(r.al))
                /\ IF is_collecting
                   THEN /\ pending_root_queue' = Append(pending_root_queue, id)
                        /\ UNCHANGED root_queue
                   ELSE /\ root_queue' = Append(root_queue, id)
                        /\ UNCHANGED pending_root_queue
                /\ hist' = IF is_collecting
                           THEN [hist EXCEPT
                                  !.born = @ \cup {id},
                                  !.born_dead = @ \cup
                                     IF is_reachable_flags(node.flags, trace_color)
                                     THEN {} ELSE {id}]
                           ELSE HistMut
           ELSE /\ hist' = HistMut
                /\ UNCHANGED <<heap, collect_needed, root_queue, pending_root_queue>>
        /\ UNCHANGED <<ephs, ephemeron_queue, pending_ephemeron_queue, trace_color,
                       is_collecting, cb, sweep, raws, items>>

\* Root::new_in (alloc_gc_node, then inc_roots)
RootNewIn(n) ==
    /\ UNCHANGED ops
    /\ UserTurn
    /\ NextObj + (IF cont.op = "node" THEN 1 ELSE 0) <= MaxObj
    /\ n \in Accessible \cup {NULL}
    /\ IF collect_needed /\ ~is_collecting
       THEN DeferredCollect("node", n, NULL)
       ELSE AllocNodeNow(n, FALSE) /\ UNCHANGED <<pc, cont, weak_maps>>

\* the Root handle to o that an allocation call in flight has taken
InFlight(o) == IF cont.op = "node" /\ cont.arg2 # 0 /\ cont.arg = o THEN 1 ELSE 0

\* the Root handles to o the mutator can use
Held(o) == heap[o].handles - InFlight(o)

\* Root::new_in(root, collector): the value of the new node is a Root handle
\* to o, moved into the node
RootNewInRoot(o) ==
    /\ UNCHANGED ops
    /\ UserTurn
    /\ NextObj + (IF cont.op = "node" THEN 1 ELSE 0) <= MaxObj
    /\ o \in Live(heap) /\ Held(o) > 0
    /\ IF collect_needed /\ ~is_collecting
       THEN DeferredCollect("node", o, 1)
       ELSE AllocNodeNow(o, TRUE) /\ UNCHANGED <<pc, cont, weak_maps>>

\* alloc_ephemeron_node after the deferred-collection test
\* es: the ephemerons as the caller left them
AllocEphemeronFrom(k, vn, es) ==
    LET id == NextEph
        r == try_alloc(allocator, EphemeronSize)
        e == [st |-> "live", key |-> k, active |-> TRUE,
              vflags |-> new_typed_in(trace_color), vnext |-> vn, slot |-> r.ptr]
    IN  /\ allocator' = r.al
        /\ IF r.ok
           THEN /\ ephs' = [es EXCEPT ![id] = e]
                /\ collect_needed' = (collect_needed \/ ~is_below_threshold(r.al))
                /\ IF is_collecting
                   THEN /\ pending_ephemeron_queue' = Append(pending_ephemeron_queue, id)
                        /\ UNCHANGED ephemeron_queue
                   ELSE /\ ephemeron_queue' = Append(ephemeron_queue, id)
                        /\ UNCHANGED pending_ephemeron_queue
                /\ hist' = IF is_collecting
                           THEN [hist EXCEPT !.born_ephs = @ \cup {id}]
                           ELSE HistMut
           ELSE /\ hist' = HistMut
                /\ ephs' = es
                /\ UNCHANGED <<collect_needed, ephemeron_queue,
                               pending_ephemeron_queue>>
        /\ UNCHANGED <<heap, root_queue, pending_root_queue, trace_color,
                       is_collecting, cb, sweep, raws, items>>

AllocEphemeronNow(k, vn) == AllocEphemeronFrom(k, vn, ephs)

\* alloc_ephemeron_node(key, value): WeakMap::insert / WeakGc::new_in
AllocEphemeronNode(k, vn) ==
    /\ UNCHANGED ops
    /\ UserTurn
    /\ NextEph + (IF cont.op = "ephemeron" THEN 1 ELSE 0) <= MaxEph
    /\ k \in Accessible
    /\ vn \in Accessible \cup {NULL}
    /\ IF collect_needed /\ ~is_collecting
       THEN DeferredCollect("ephemeron", k, vn)
       ELSE AllocEphemeronNow(k, vn) /\ UNCHANGED <<pc, cont, weak_maps>>

\* Allocator::allocate after the zero-size and deferred-collection tests
AllocateNow(size, align) ==
    LET r == try_alloc_bytes(allocator, size, align)
    IN  /\ allocator' = r.al
        /\ raws' = IF r.ok THEN raws \cup {r.ptr} ELSE raws
        /\ hist' = HistMut
        /\ UNCHANGED <<heap, ephs, root_queue, ephemeron_queue, pending_root_queue,
                       pending_ephemeron_queue, trace_color, collect_needed,
                       is_collecting, cb, sweep, items>>

\* Allocator::allocate(layout), at most max times
AllocateUpTo(max, size, align) ==
    /\ UserTurn
    /\ ops.raws < max
    /\ ops' = [ops EXCEPT !.raws = @ + 1]
    /\ IF size = 0
       THEN /\ hist' = HistMut
            /\ UNCHANGED <<heap, ephs, allocator, root_queue, ephemeron_queue,
                           pending_root_queue, pending_ephemeron_queue, trace_color,
                           collect_needed, is_collecting, pc, cb, sweep, cont, raws, items,
                           weak_maps>>
       ELSE IF collect_needed /\ ~is_collecting
       THEN DeferredCollect("raw", size, align)
       ELSE AllocateNow(size, align) /\ UNCHANGED <<pc, cont, weak_maps>>

Allocate(size, align) == AllocateUpTo(MaxRaw, size, align)

\* Allocator::deallocate(ptr, layout)
Deallocate(b) ==
    /\ UNCHANGED <<ops, weak_maps>>
    /\ UserTurn
    /\ b \in raws
    /\ allocator' = dealloc_bytes(allocator, b)
    /\ raws' = raws \ {b}
    /\ hist' = HistMut
    /\ UNCHANGED <<heap, ephs, root_queue, ephemeron_queue, pending_root_queue,
                   pending_ephemeron_queue, trace_color, collect_needed,
                   is_collecting, pc, cb, sweep, cont, items>>

\* Allocator::grow / shrink after the allocate of the new block (and its
\* deferred collection): the data is copied and the old block b deallocated
MoveNow(b, new_size) ==
    LET r == try_alloc_bytes(allocator, new_size, RawAlign)
    IN  /\ allocator' = IF r.ok THEN dealloc_bytes(r.al, b) ELSE r.al
        /\ raws' = IF r.ok THEN (raws \ {b}) \cup {r.ptr} ELSE raws
        /\ hist' = HistMut
        /\ UNCHANGED <<heap, ephs, root_queue, ephemeron_queue, pending_root_queue,
                       pending_ephemeron_queue, trace_color, collect_needed,
                       is_collecting, cb, sweep, items>>

\* the allocation call resumes after its deferred collect() has returned
Resume ==
    /\ UNCHANGED <<ops, weak_maps>>
    /\ pc = "resume" /\ cont.op \notin {"wm_insert", "move"}
    /\ pc' = "idle"
    /\ cont' = NoCont
    /\ CASE cont.op = "node" -> AllocNodeNow(cont.arg, cont.arg2 # 0)
         [] cont.op = "ephemeron" -> AllocEphemeronNow(cont.arg, cont.arg2)
         [] OTHER -> AllocateNow(cont.arg, cont.arg2)

\* u16::wrapping_add(1)
wrapping_add_1(c) == [some |-> TRUE, val |-> (c + 1) % (U16Max + 1)]

\* u16::checked_add(1)
checked_add_1(c) == IF c + 1 > U16Max THEN [some |-> FALSE, val |-> c]
                    ELSE [some |-> TRUE, val |-> c + 1]

\* GcHeader::inc_roots: expect() on the checked sum, so an overflow panics and
\* the count is left as it was
inc_roots(n) == [n EXCEPT !.root_count = checked_add_1(@).val]

\* inc_roots panics on this header
inc_roots_panics(n) == ~checked_add_1(n.root_count).some

\* GcHeader::dec_roots
dec_roots(n) == [n EXCEPT !.root_count = SatSub(@, 1)]

\* Finalize for Root, on the Root handle that node x holds: dec_roots of its
\* target (a target already freed is left as it is)
finalize_root(hp, x) ==
    IF hp[x].owns_root /\ hp[x].next # NULL /\ hp[hp[x].next].st = "live"
    THEN [hp EXCEPT ![hp[x].next] = dec_roots(@)]
    ELSE hp

HeapOnly ==
    UNCHANGED <<ephs, allocator, root_queue, ephemeron_queue, pending_root_queue,
                pending_ephemeron_queue, trace_color, collect_needed, is_collecting,
                pc, cb, sweep, cont, raws, items, weak_maps>>

\* grow / shrink resumes after the deferred collect() of its allocate
MoveResume ==
    /\ UNCHANGED <<ops, weak_maps>>
    /\ pc = "resume" /\ cont.op = "move"
    /\ pc' = "idle"
    /\ cont' = NoCont
    /\ MoveNow(cont.arg, cont.arg2)

\* Clone for Root, on a handle the mutator holds, at most max times
RootCloneUpTo(max, o) ==
    /\ UserTurn
    /\ o \in Live(heap) /\ Held(o) > 0
    /\ ops.clones < max
    /\ ops' = [ops EXCEPT !.clones = @ + 1]
    /\ heap' = [heap EXCEPT ![o] = IF inc_roots_panics(@) THEN @
                                   ELSE [inc_roots(@) EXCEPT !.handles = @ + 1]]
    /\ hist' = HistMut
    /\ HeapOnly

RootClone(o) == RootCloneUpTo(MaxClones, o)

\* a finalize hook clones a Root handle to the node being finalized (a handle
\* kept outside the heap): the node is rooted again when the hook returns
Revive ==
    /\ cb.kind = "finalize"
    /\ ~is_rooted(heap[cb.id])
    /\ RootCloneUpTo(MaxClones + MaxRevivals, cb.id)

\* a callback of the sweep clones a handle to a node that an earlier call of
\* the extract_if predicate has already moved to droppables
ReviveLate ==
    /\ cb # NoCb
    /\ \E o \in Range(sweep.droppables) :
           /\ ~is_rooted(heap[o])
           /\ RootCloneUpTo(MaxClones + MaxRevivals, o)

\* Drop for Root (Finalize::finalize of the handle)
RootDrop(o) ==
    /\ UNCHANGED <<ops, weak_maps>>
    /\ UserTurn
    /\ o \in Live(heap) /\ Held(o) > 0
    /\ heap' = [heap EXCEPT ![o] = [dec_roots(@) EXCEPT !.handles = @ - 1]]
    /\ hist' = HistMut
    /\ HeapOnly

\* Finalize::finalize called by the mutator on a Root handle it keeps, at most
\* MaxFinalizeCalls times: dec_roots, and the handle stays usable
RootFinalize(o) ==
    /\ UserTurn
    /\ o \in Live(heap) /\ Held(o) > 0
    /\ ops.finalizes < MaxFinalizeCalls
    /\ ops' = [ops EXCEPT !.finalizes = @ + 1]
    /\ heap' = [heap EXCEPT ![o] = dec_roots(@)]
    /\ hist' = HistMut
    /\ HeapOnly

\* a GcRefCell mutation: node o now holds a Gc to n (or none)
SetNext(o, n) ==
    /\ UserTurn
    /\ o \in Accessible /\ ~heap[o].owns_root
    /\ n \in Accessible \cup {NULL}
    /\ n # heap[o].next
    /\ ops.sets < MaxSets
    /\ ops' = [ops EXCEPT !.sets = @ + 1]
    /\ heap' = [heap EXCEPT ![o].next = n]
    /\ hist' = HistMut
    /\ HeapOnly

\* Ephemeron::invalidate (WeakMap::remove, WeakMap::insert over an entry)
Invalidate(e) ==
    /\ UNCHANGED <<ops, weak_maps>>
    /\ UserTurn
    /\ e \in LiveEphs(ephs)
    /\ ephs[e].active
    /\ ephs' = [ephs EXCEPT ![e].active = FALSE]
    /\ hist' = HistMut
    /\ UNCHANGED <<heap, allocator, root_queue, ephemeron_queue, pending_root_queue,
                   pending_ephemeron_queue, trace_color, collect_needed,
                   is_collecting, pc, cb, sweep, cont, raws, items>>

\* ---------------------------------------------------------------- WeakMap
\* WeakMapInner::new
WeakMapInner_new == [entries |-> {}, is_alive |-> TRUE]

\* the address of a key's GcBox: the hash key of its entry
key_addr(hp, k) == hp[k].slot

\* the entries of m under an address (a hash map holds at most one)
EntriesAt(m, addr) == {en \in m.entries : en.key_addr = addr}

\* Ephemeron::invalidate
invalidate(es, e) ==
    IF es[e].st = "live" THEN [es EXCEPT ![e].active = FALSE] ELSE es

\* WeakMapInner::remove_and_invalidate
remove_and_invalidate(m, es, addr) ==
    LET old == EntriesAt(m, addr)
    IN  [m |-> [m EXCEPT !.entries = @ \ old],
         ephs |-> IF old = {} THEN es
                  ELSE invalidate(es, (CHOOSE en \in old : TRUE).ptr)]

\* WeakMapInner::insert_ptr
insert_ptr(m, addr, e) ==
    [m EXCEPT !.entries = (@ \ EntriesAt(m, addr))
                              \cup {[key_addr |-> addr, ptr |-> e]}]

\* WeakMapInner::get: the ephemeron whose value is returned (NULL: None)
get(m, k) ==
    LET en == EntriesAt(m, key_addr(heap, k))
    IN  IF en = {} THEN NULL ELSE (CHOOSE x \in en : TRUE).ptr

\* WeakMapInner::is_key_alive
is_key_alive(m, k) == EntriesAt(m, key_addr(heap, k)) # {}

\* WeakMapInner::remove
remove(m, es, addr) ==
    LET old == EntriesAt(m, addr)
    IN  [m |-> [m EXCEPT !.entries = @ \ old],
         ephs |-> IF old = {} THEN es
                  ELSE invalidate(es, (CHOOSE en \in old : TRUE).ptr),
         ret |-> old # {}]

\* WeakMap::new: the collector takes the inner allocation into weak_maps
WeakMapNew ==
    /\ UNCHANGED ops
    /\ UserTurn
    /\ Len(weak_maps) < MaxMaps
    /\ weak_maps' = Append(weak_maps, WeakMapInner_new)
    /\ hist' = HistMut
    /\ UNCHANGED <<heap, ephs, allocator, root_queue, ephemeron_queue,
                   pending_root_queue, pending_ephemeron_queue, trace_color,
                   collect_needed, is_collecting, pc, cb, sweep, cont, raws, items>>

\* Drop for WeakMap releasing the inner table itself (a mutant)
WeakMapDropReleases(i) ==
    /\ UNCHANGED ops
    /\ UserTurn
    /\ cont.op # "wm_insert"
    /\ i \in 1..Len(weak_maps) /\ weak_maps[i].is_alive
    /\ weak_maps' = RemoveAt(weak_maps, i)
    /\ hist' = HistMut
    /\ UNCHANGED <<heap, ephs, allocator, root_queue, ephemeron_queue,
                   pending_root_queue, pending_ephemeron_queue, trace_color,
                   collect_needed, is_collecting, pc, cb, sweep, cont, raws, items>>

\* Drop for WeakMap, on the handle of the i-th table (no insert through the
\* handle is in flight: insert borrows it)
WeakMapDrop(i) ==
    /\ UNCHANGED ops
    /\ UserTurn
    /\ cont.op # "wm_insert"
    /\ i \in 1..Len(weak_maps) /\ weak_maps[i].is_alive
    /\ weak_maps' = [weak_maps EXCEPT ![i].is_alive = FALSE]
    /\ hist' = HistMut
    /\ UNCHANGED <<heap, ephs, allocator, root_queue, ephemeron_queue,
                   pending_root_queue, pending_ephemeron_queue, trace_color,
                   collect_needed, is_collecting, pc, cb, sweep, cont, raws, items>>

\* WeakMap::insert(key, value, collector): remove_and_invalidate, then
\* alloc_ephemeron_node (which may first run the deferred collection), then
\* insert_ptr
WeakMapInsert(k, vn) ==
    /\ UserTurn
    /\ weak_maps # << >> /\ weak_maps[1].is_alive
    /\ ops.inserts < MaxInserts
    /\ NextEph + (IF cont.op = "wm_insert" THEN 1 ELSE 0) <= MaxEph
    /\ k \in Accessible
    /\ vn \in Accessible \cup {NULL}
    /\ LET addr == key_addr(heap, k)
           rm == remove_and_invalidate(weak_maps[1], ephs, addr)
           maps == [weak_maps EXCEPT ![1] = rm.m]
           ok == try_alloc(allocator, EphemeronSize).ok
       IN  IF collect_needed /\ ~is_collecting
           THEN /\ collect_needed' = FALSE
                /\ CollectBeginFrom([op |-> "wm_insert", arg |-> k, arg2 |-> vn,
                                     cycles0 |-> hist.cycles], rm.ephs, maps)
                /\ ops' = [ops EXCEPT !.inserts = @ + 1, !.expect[k] = NULL]
           ELSE /\ AllocEphemeronFrom(k, vn, rm.ephs)
                /\ weak_maps' = IF ok
                                THEN [maps EXCEPT ![1] = insert_ptr(@, addr, NextEph)]
                                ELSE maps
                /\ ops' = [ops EXCEPT !.inserts = @ + 1,
                                      !.expect[k] = IF ok THEN NextEph ELSE NULL]
                /\ UNCHANGED <<pc, cont>>

\* WeakMap::insert resumes after the deferred collect() inside
\* alloc_ephemeron_node has returned
WeakMapInsertResume ==
    /\ pc = "resume" /\ cont.op = "wm_insert"
    /\ pc' = "idle"
    /\ cont' = NoCont
    /\ AllocEphemeronFrom(cont.arg, cont.arg2, ephs)
    /\ LET ok == try_alloc(allocator, EphemeronSize).ok
       IN  /\ weak_maps' = IF ok
                           THEN [weak_maps EXCEPT
                                   ![1] = insert_ptr(@, key_addr(heap, cont.arg),
                                                     NextEph)]
                           ELSE weak_maps
           /\ ops' = [ops EXCEPT !.expect[cont.arg] = IF ok THEN NextEph ELSE NULL]

\* WeakMap::remove(key)
WeakMapRemove(k) ==
    /\ UserTurn
    /\ weak_maps # << >> /\ weak_maps[1].is_alive
    /\ ops.removes < MaxRemoves
    /\ k \in Accessible
    /\ LET r == remove(weak_maps[1], ephs, key_addr(heap, k))
       IN  /\ weak_maps' = [weak_maps EXCEPT ![1] = r.m]
           /\ ephs' = r.ephs
           /\ ops' = [ops EXCEPT !.removes = @ + 1, !.ret = r.ret,
                                 !.removed = @ \cup {en.ptr : en \in
                                     EntriesAt(weak_maps[1], key_addr(heap, k))},
                                 !.expect[k] = NULL]
    /\ hist' = HistMut
    /\ UNCHANGED <<heap, allocator, root_queue, ephemeron_queue,
                   pending_root_queue, pending_ephemeron_queue, trace_color,
                   collect_needed, is_collecting, pc, cb, sweep, cont, raws, items>>

\* ------------------------------------------------------------ collection
\* A panic unwinds collect(): CollectingGuard::drop clears is_collecting, the
\* locals of run_sweep_phase (the extracted vectors) are dropped without being
\* put back, the color is not flipped and the pending queues are not flushed.
Unwind ==
    /\ is_collecting' = FALSE
    /\ pc' = "idle"
    /\ cb' = NoCb
    /\ sweep' = NoSweep
    /\ cont' = NoCont

\* run_sweep_phase, one call of the first extract_if predicate up to finalize()
SweepRootStep ==
    /\ UNCHANGED <<ops, weak_maps>>
    /\ pc = "sweep_roots" /\ cb = NoCb
    /\ sweep.i <= Len(root_queue)
    /\ LET x == root_queue[sweep.i]
       IN  \E ub \in BOOLEAN :
             IF is_reachable(heap, x, trace_color, ub)
             THEN /\ sweep' = [sweep EXCEPT !.i = @ + 1]
                  /\ UNCHANGED <<heap, cb>>
             ELSE /\ cb' = [kind |-> "finalize", id |-> x]
                  /\ heap' = IF heap[x].st = "live" THEN finalize_root(heap, x)
                             ELSE heap
                  /\ UNCHANGED sweep
    /\ UNCHANGED <<ephs, allocator, root_queue, ephemeron_queue,
                   pending_root_queue, pending_ephemeron_queue, trace_color,
                   collect_needed, is_collecting, pc, cont, raws, items, hist>>

\* finalize() returned: the is_rooted recheck, the re-trace, and extract_if's
\* removal of the node when it is still not reachable
FinalizeReturn ==
    /\ UNCHANGED <<ops, weak_maps>>
    /\ cb.kind = "finalize"
    /\ LET x == cb.id
       IN  \E panicAt \in {NULL} \cup Live(heap), ub \in BOOLEAN :
             LET t == IF is_rooted(heap[x])
                      THEN trace_fn(heap, x, trace_color, panicAt, ub, {})
                      ELSE [heap |-> heap, panicked |-> FALSE]
             IN  /\ heap' = t.heap
                 /\ IF t.panicked
                    THEN /\ Unwind
                         /\ hist' = [hist EXCEPT !.last = "aborted"]
                         /\ UNCHANGED root_queue
                    ELSE /\ cb' = NoCb
                         /\ IF is_reachable(t.heap, x, trace_color, ub)
                            THEN /\ sweep' = [sweep EXCEPT !.i = @ + 1]
                                 /\ UNCHANGED root_queue
                            ELSE /\ root_queue' = RemoveAt(root_queue, sweep.i)
                                 /\ sweep' = [sweep EXCEPT
                                               !.droppables = Append(@, x)]
                         /\ hist' = IF is_rooted(heap[x])
                                    THEN [hist EXCEPT !.revived = @ \cup {x}]
                                    ELSE hist
                         /\ UNCHANGED <<is_collecting, pc, cont>>
    /\ UNCHANGED <<ephs, allocator, ephemeron_queue, pending_root_queue,
                   pending_ephemeron_queue, trace_color, collect_needed, raws, items>>

\* the first extract_if is exhausted
SweepRootsDone ==
    /\ UNCHANGED <<ops, weak_maps>>
    /\ pc = "sweep_roots" /\ cb = NoCb
    /\ sweep.i > Len(root_queue)
    /\ pc' = "sweep_ephs"
    /\ sweep' = [sweep EXCEPT !.i = 1]
    /\ UNCHANGED <<heap, ephs, allocator, root_queue, ephemeron_queue,
                   pending_root_queue, pending_ephemeron_queue, trace_color,
                   collect_needed, is_collecting, cb, cont, raws, items, hist>>

\* one call of the second extract_if predicate up to finalize_fn
SweepEphStep ==
    /\ UNCHANGED <<ops, weak_maps>>
    /\ pc = "sweep_ephs" /\ cb = NoCb
    /\ sweep.i <= Len(ephemeron_queue)
    /\ LET e == ephemeron_queue[sweep.i]
       IN  \E ub \in BOOLEAN :
             IF eph_is_reachable(heap, ephs[e], trace_color, ub)
             THEN sweep' = [sweep EXCEPT !.i = @ + 1] /\ cb' = NoCb
             ELSE cb' = [kind |-> "eph_finalize", id |-> e] /\ UNCHANGED sweep
    /\ UNCHANGED <<heap, ephs, allocator, root_queue, ephemeron_queue,
                   pending_root_queue, pending_ephemeron_queue, trace_color,
                   collect_needed, is_collecting, pc, cont, raws, items, hist>>

\* finalize_fn returned: recheck, re-trace, removal when still not reachable
EphFinalizeReturn ==
    /\ UNCHANGED <<ops, weak_maps>>
    /\ cb.kind = "eph_finalize"
    /\ LET e == cb.id
       IN  \E panicAt \in {NULL} \cup Live(heap), ub \in BOOLEAN :
             LET t == IF eph_is_reachable(heap, ephs[e], trace_color, ub)
                      THEN eph_trace_fn(heap, ephs, e, trace_color, panicAt, ub)
                      ELSE [heap |-> heap, ephs |-> ephs, panicked |-> FALSE]
             IN  /\ heap' = t.heap
                 /\ ephs' = t.ephs
                 /\ IF t.panicked
                    THEN /\ Unwind
                         /\ hist' = [hist EXCEPT !.last = "aborted"]
                         /\ UNCHANGED ephemeron_queue
                    ELSE /\ cb' = NoCb
                         /\ IF eph_is_reachable(t.heap, t.ephs[e], trace_color, ub)
                            THEN /\ sweep' = [sweep EXCEPT !.i = @ + 1]
                                 /\ UNCHANGED ephemeron_queue
                            ELSE /\ ephemeron_queue' = RemoveAt(ephemeron_queue, sweep.i)
                                 /\ sweep' = [sweep EXCEPT
                                               !.ephemerons = Append(@, e)]
                         /\ UNCHANGED <<is_collecting, pc, cont, hist>>
    /\ UNCHANGED <<allocator, root_queue, pending_root_queue,
                   pending_ephemeron_queue, trace_color, collect_needed, raws, items>>

\* the second extract_if is exhausted
SweepEphsDone ==
    /\ UNCHANGED <<ops, weak_maps>>
    /\ pc = "sweep_ephs" /\ cb = NoCb
    /\ sweep.i > Len(ephemeron_queue)
    /\ pc' = "drop_ephs"
    /\ sweep' = [sweep EXCEPT !.i = 1]
    /\ UNCHANGED <<heap, ephs, allocator, root_queue, ephemeron_queue,
                   pending_root_queue, pending_ephemeron_queue, trace_color,
                   collect_needed, is_collecting, cb, cont, raws, items, hist>>

\* one iteration of `for mut ephemeron in ephemerons`
DropEphStep ==
    /\ UNCHANGED <<ops, weak_maps>>
    /\ pc = "drop_ephs"
    /\ sweep.ephemerons # << >>
    /\ LET e == Head(sweep.ephemerons)
       IN  \E ub \in BOOLEAN :
             IF eph_is_reachable(heap, ephs[e], trace_color, ub)
             THEN /\ sweep' = [sweep EXCEPT !.ephemerons = Tail(@),
                                            !.still_alive = Append(@, e)]
                  /\ UNCHANGED <<ephs, allocator, hist>>
             ELSE /\ sweep' = [sweep EXCEPT !.ephemerons = Tail(@)]
                  /\ ephs' = [ephs EXCEPT ![e].st = "freed"]
                  /\ allocator' = free_slot(allocator, ephs[e].slot)
                  /\ hist' = [hist EXCEPT !.freed_ephs = @ \cup {e}]
    /\ UNCHANGED <<heap, root_queue, ephemeron_queue, pending_root_queue,
                   pending_ephemeron_queue, trace_color, collect_needed,
                   is_collecting, pc, cb, cont, raws, items>>

\* ephemeron_queue.extend(still_alive)
DropEphsDone ==
    /\ UNCHANGED <<ops, weak_maps>>
    /\ pc = "drop_ephs"
    /\ sweep.ephemerons = << >>
    /\ ephemeron_queue' = ephemeron_queue \o sweep.still_alive
    /\ sweep' = [sweep EXCEPT !.still_alive = << >>]
    /\ pc' = "drop_roots"
    /\ UNCHANGED <<heap, ephs, allocator, root_queue, pending_root_queue,
                   pending_ephemeron_queue, trace_color, collect_needed,
                   is_collecting, cb, cont, raws, items, hist>>

\* one iteration of `for node in droppables`, up to the call of drop_fn
DropRootStep ==
    /\ UNCHANGED <<ops, weak_maps>>
    /\ pc = "drop_roots" /\ cb = NoCb
    /\ sweep.droppables # << >>
    /\ LET x == Head(sweep.droppables)
       IN  IF is_rooted(heap[x])
           THEN /\ sweep' = [sweep EXCEPT !.droppables = Tail(@),
                                          !.still_alive_roots = Append(@, x)]
                /\ UNCHANGED <<cb, hist>>
           ELSE /\ sweep' = [sweep EXCEPT !.droppables = Tail(@)]
                /\ cb' = [kind |-> "drop", id |-> x]
                /\ hist' = [hist EXCEPT !.freed = @ \cup {x}]
    /\ UNCHANGED <<heap, ephs, allocator, root_queue, ephemeron_queue,
                   pending_root_queue, pending_ephemeron_queue, trace_color,
                   collect_needed, is_collecting, pc, cont, raws, items>>

\* drop_fn returned (drop_in_place has dropped the Root handle the node
\* holds: Drop for Root calls finalize again): free_slot reclaims the slot
DropReturn ==
    /\ UNCHANGED <<ops, weak_maps>>
    /\ cb.kind = "drop"
    /\ heap' = [finalize_root(heap, cb.id) EXCEPT ![cb.id].st = "freed"]
    /\ allocator' = free_slot(allocator, heap[cb.id].slot)
    /\ cb' = NoCb
    /\ UNCHANGED <<ephs, root_queue, ephemeron_queue, pending_root_queue,
                   pending_ephemeron_queue, trace_color, collect_needed,
                   is_collecting, pc, sweep, cont, raws, items, hist>>

\* a Finalize or Drop impl panics inside the collection
CbPanic ==
    /\ UNCHANGED <<ops, weak_maps>>
    /\ UserCb
    /\ Unwind
    /\ heap' = IF cb.kind = "drop"
               THEN [heap EXCEPT ![cb.id].st = "dropped"] ELSE heap
    /\ hist' = [hist EXCEPT !.last = "aborted"]
    /\ UNCHANGED <<ephs, allocator, root_queue, ephemeron_queue,
                   pending_root_queue, pending_ephemeron_queue, trace_color,
                   collect_needed, raws, items>>

\* the raw blocks the mutator may pass to the allocator: not the one a grow or
\* shrink in flight is moving
UsableRaws == raws \ (IF cont.op = "move" THEN {cont.arg} ELSE {})

\* Allocator::grow(ptr, old_layout, new_layout) on the block b; debug: the
\* build has debug assertions, and grow inside a collection panics
Grow(b, new_size, debug) ==
    /\ UserTurn
    /\ b \in UsableRaws /\ new_size >= b.size
    /\ IF debug /\ is_collecting
       THEN CbPanic
       ELSE /\ ops.raws < MaxRawOps
            /\ ops' = [ops EXCEPT !.raws = @ + 1]
            /\ IF collect_needed /\ ~is_collecting
               THEN DeferredCollect("move", b, new_size)
               ELSE MoveNow(b, new_size) /\ UNCHANGED <<pc, cont, weak_maps>>

\* Allocator::shrink(ptr, old_layout, new_layout) on the block b
Shrink(b, new_size) ==
    /\ UserTurn
    /\ b \in UsableRaws /\ new_size <= b.size
    /\ ops.raws < MaxRawOps
    /\ ops' = [ops EXCEPT !.raws = @ + 1]
    /\ LET s == shrink_bytes_in_place(allocator, b, b.size, new_size)
       IN  IF new_size = 0
           THEN /\ allocator' = dealloc_bytes(allocator, b)
                /\ raws' = raws \ {b}
                /\ hist' = HistMut
                /\ UNCHANGED <<heap, ephs, root_queue, ephemeron_queue,
                               pending_root_queue, pending_ephemeron_queue,
                               trace_color, collect_needed, is_collecting, pc, cb,
                               sweep, cont, items, weak_maps>>
           ELSE IF s.ok
           THEN /\ allocator' = s.al
                /\ raws' = (raws \ {b}) \cup {[b EXCEPT !.size = new_size]}
                /\ hist' = HistMut
                /\ UNCHANGED <<heap, ephs, root_queue, ephemeron_queue,
                               pending_root_queue, pending_ephemeron_queue,
                               trace_color, collect_needed, is_collecting, pc, cb,
                               sweep, cont, items, weak_maps>>
           ELSE IF collect_needed /\ ~is_collecting
           THEN DeferredCollect("move", b, new_size)
           ELSE MoveNow(b, new_size) /\ UNCHANGED <<pc, cont, weak_maps>>

\* the end of run_sweep_phase (root_queue.extend(still_alive_roots)), the rest
\* of sweep_trace_color (flip, drop_dead_arenas, the pending queues appended),
\* then collect()'s own drop_dead_arenas and the guard's drop
CollectFinish ==
    /\ UNCHANGED <<ops, weak_maps>>
    /\ pc = "drop_roots" /\ cb = NoCb
    /\ sweep.droppables = << >>
    /\ root_queue' = (root_queue \o sweep.still_alive_roots) \o pending_root_queue
    /\ ephemeron_queue' = ephemeron_queue \o pending_ephemeron_queue
    /\ pending_root_queue' = << >>
    /\ pending_ephemeron_queue' = << >>
    /\ trace_color' = flip(trace_color)
    /\ allocator' = drop_dead_arenas(drop_dead_arenas(allocator))
    /\ is_collecting' = FALSE
    /\ sweep' = NoSweep
    /\ pc' = IF cont.op = "none" THEN "idle" ELSE "resume"
    /\ hist' = [hist EXCEPT !.last = "completed", !.steady = TRUE]
    /\ UNCHANGED <<heap, ephs, collect_needed, cb, cont, raws, items>>

\* sweep_all_queues, one loop over a queue of ephemerons: drop_fn, free_slot
RECURSIVE sweep_all_ephemerons(_, _, _)
sweep_all_ephemerons(es, al, q) ==
    IF q = << >> THEN [ephs |-> es, al |-> al]
    ELSE LET e == Head(q)
         IN  IF es[e].st = "live"
             THEN sweep_all_ephemerons([es EXCEPT ![e].st = "freed"],
                                       free_slot(al, es[e].slot), Tail(q))
             ELSE sweep_all_ephemerons(es, al, Tail(q))

\* sweep_all_queues, one loop over a queue of nodes: drop_fn, free_slot
RECURSIVE sweep_all_roots(_, _, _)
sweep_all_roots(hp, al, q) ==
    IF q = << >> THEN [heap |-> hp, al |-> al]
    ELSE LET x == Head(q)
         IN  IF hp[x].st = "live"
             THEN sweep_all_roots([finalize_root(hp, x) EXCEPT ![x].st = "freed"],
                                  free_slot(al, hp[x].slot), Tail(q))
             ELSE sweep_all_roots(hp, al, Tail(q))

\* sweep_all_queues: ephemeron queue, root queue, then the pending queues
sweep_all_queues(hp, es, al) ==
    LET e1 == sweep_all_ephemerons(es, al, ephemeron_queue)
        r1 == sweep_all_roots(hp, e1.al, root_queue)
        e2 == sweep_all_ephemerons(e1.ephs, r1.al, pending_ephemeron_queue)
        r2 == sweep_all_roots(r1.heap, e2.al, pending_root_queue)
    IN  [heap |-> r2.heap, ephs |-> e2.ephs, al |-> r2.al]

\* the arena vectors are dropped with the allocator: Drop for Arena gives
\* every buffer back to the global allocator
drop_arenas(al) == [al EXCEPT !.typed_arenas = << >>, !.raw_arenas = << >>,
                              !.current_heap_size = 0]

\* Drop for MarkSweepGarbageCollector, the test that selects the leak branch
leak(al) == arenas_len(al) > 0
            /\ (root_queue # << >> \/ pending_root_queue # << >>)

\* Drop for MarkSweepGarbageCollector, then the drop of its fields
DropCollector ==
    /\ UNCHANGED ops
    /\ pc = "idle"
    /\ weak_maps' = << >>
    /\ LET s == IF leak(allocator)
                THEN [heap |-> heap, ephs |-> ephs, al |-> allocator]
                ELSE sweep_all_queues(heap, ephs, allocator)
       IN  /\ heap' = s.heap
           /\ ephs' = s.ephs
           /\ allocator' = drop_arenas(s.al)
    /\ root_queue' = << >>
    /\ ephemeron_queue' = << >>
    /\ pending_root_queue' = << >>
    /\ pending_ephemeron_queue' = << >>
    /\ pc' = "gone"
    /\ UNCHANGED <<trace_color, collect_needed, is_collecting, cb, sweep, cont,
                   raws, items, hist>>

\* the steps of a collection that involve no ephemeron
NodeCycle ==
    \/ Collect
    \/ SweepRootStep
    \/ FinalizeReturn
    \/ SweepRootsDone
    \/ SweepEphsDone
    \/ DropEphsDone
    \/ DropRootStep
    \/ DropReturn
    \/ CbPanic
    \/ CollectFinish

\* the steps of a collection over the ephemeron queue
EphCycle ==
    \/ SweepEphStep
    \/ EphFinalizeReturn
    \/ DropEphStep

\* every operation of the collector
Next ==
    \/ \E n \in Objs \cup {NULL} : RootNewIn(n)
    \/ \E o \in Objs : RootClone(o)
    \/ \E o \in Objs : RootDrop(o)
    \/ \E o \in Objs, n \in Objs \cup {NULL} : SetNext(o, n)
    \/ \E k \in Objs, vn \in Objs \cup {NULL} : AllocEphemeronNode(k, vn)
    \/ \E e \in Ephs : Invalidate(e)
    \/ \E size \in {0, RawBlockSize} : Allocate(size, RawAlign)
    \/ \E b \in raws : Deallocate(b)
    \/ Resume
    \/ NodeCycle
    \/ EphCycle

Spec == Init /\ [][Next]_vars

\* a mutator that uses Root and Gc only: object graphs, no weak references,
\* no raw allocation
NextGc ==
    \/ \E n \in Objs \cup {NULL} : RootNewIn(n)
    \/ \E o \in Objs : RootClone(o)
    \/ \E o \in Objs : RootDrop(o)
    \/ \E o \in Objs, n \in Objs \cup {NULL} : SetNext(o, n)
    \/ NodeCycle

SpecGc == Init /\ [][NextGc]_vars

\* alloc_ephemeron_node with a value that holds no pointer, at most MaxMemEph
\* times
MemEphemeronNode(k) ==
    /\ NextEph + (IF cont.op = "ephemeron" THEN 1 ELSE 0) <= MaxMemEph
    /\ AllocEphemeronNode(k, NULL)

\* a mutator that uses every kind of allocation (nodes, ephemerons, raw
\* blocks) and builds no object graph
NextMem ==
    \/ RootNewIn(NULL)
    \/ \E o \in Objs : RootDrop(o)
    \/ \E k \in Objs : MemEphemeronNode(k)
    \/ \E e \in Ephs : Invalidate(e)
    \/ \E size \in {0, RawBlockSize} : Allocate(size, RawAlign)
    \/ \E b \in raws : Deallocate(b)
    \/ Resume
    \/ NodeCycle
    \/ EphCycle

SpecMem == Init /\ [][NextMem]_vars

\* a mutator that builds ephemerons whose values hold Gc pointers
NextEphemeron ==
    \/ RootNewIn(NULL)
    \/ \E o \in Objs : RootDrop(o)
    \/ \E k \in Objs, vn \in Objs \cup {NULL} : AllocEphemeronNode(k, vn)
    \/ Resume
    \/ NodeCycle
    \/ EphCycle

SpecEphemeron == Init /\ [][NextEphemeron]_vars

\* WeakMap::insert with a value that holds no pointer, at most
\* MaxGraphInserts times
WeakGraphInsert(k) ==
    /\ ops.inserts < MaxGraphInserts
    /\ WeakMapInsert(k, NULL)

\* a mutator that keeps a weak map over an object graph
NextWeakGraph ==
    \/ \E n \in Objs \cup {NULL} : RootNewIn(n)
    \/ \E o \in Objs : RootDrop(o)
    \/ WeakMapNew
    \/ \E k \in Objs : WeakGraphInsert(k)
    \/ Resume
    \/ NodeCycle
    \/ EphCycle

SpecWeakGraph == Init /\ [][NextWeakGraph]_vars

\* a mutator that inserts into, replaces in and removes from a weak map whose
\* keys are unlinked objects
NextWeakMap ==
    \/ RootNewIn(NULL)
    \/ \E o \in Objs : RootDrop(o)
    \/ WeakMapNew
    \/ \E k \in Objs : WeakMapInsert(k, NULL)
    \/ WeakMapInsertResume
    \/ \E k \in Objs : WeakMapRemove(k)
    \/ Resume
    \/ NodeCycle
    \/ EphCycle

SpecWeakMap == Init /\ [][NextWeakMap]_vars

\* a mutator that fills weak maps and drops their handles
NextWeakMapDrop ==
    \/ RootNewIn(NULL)
    \/ \E o \in Objs : RootDrop(o)
    \/ WeakMapNew
    \/ \E k \in Objs : WeakGraphInsert(k)
    \/ \E i \in 1..MaxMaps : WeakMapDrop(i)
    \/ Resume
    \/ NodeCycle
    \/ EphCycle

SpecWeakMapDrop == Init /\ [][NextWeakMapDrop]_vars

\* a mutator that allocates nodes and ephemerons and then drops the collector
NextDrop ==
    \/ RootNewIn(NULL)
    \/ \E o \in Objs : RootDrop(o)
    \/ \E k \in Objs : AllocEphemeronNode(k, NULL)
    \/ Resume
    \/ NodeCycle
    \/ EphCycle
    \/ DropCollector

SpecDrop == Init /\ [][NextDrop]_vars

\* Root::new_in of a leaf node, at most MaxRawObj times
RawRootNewIn ==
    /\ NextObj + (IF cont.op = "node" THEN 1 ELSE 0) <= MaxRawObj
    /\ RootNewIn(NULL)

\* Allocator::allocate of a block of RawAlign alignment
RawAllocate(size) == AllocateUpTo(MaxRawOps, size, RawAlign)

\* Allocator::deallocate of a block the mutator holds
RawDeallocate(b) == b \in UsableRaws /\ Deallocate(b)

\* a container (Vec<T, &MarkSweepGarbageCollector>) that allocates, grows,
\* shrinks and frees its storage, next to rooted nodes
NextRaw ==
    \/ RawRootNewIn
    \/ \E o \in Objs : RootDrop(o)
    \/ \E size \in {0, RawBlockSize, RawBigSize} : RawAllocate(size)
    \/ \E b \in raws : RawDeallocate(b)
    \/ \E b \in raws, debug \in BOOLEAN : Grow(b, 2 * b.size, debug)
    \/ \E b \in raws : \E new_size \in {0, b.size \div 2} : Shrink(b, new_size)
    \/ Resume
    \/ MoveResume
    \/ NodeCycle

SpecRaw == Init /\ [][NextRaw]_vars

\* ------------------------------------------- the allocator used directly
\* (arena3 without the collector, as in the tests of arena3)

\* the item sizes asked for: every size class, one byte above each, and the
\* sizes below the smallest slot
ItemSizes ==
    {1, 8} \cup {SIZE_CLASSES[k] : k \in 1..Len(SIZE_CLASSES)}
           \cup {SIZE_CLASSES[k] + 1 : k \in 1..Len(SIZE_CLASSES)}

\* the typed arena with buffer `id`
TypedArena(al, id) ==
    al.typed_arenas[CHOOSE i \in 1..Len(al.typed_arenas) : al.typed_arenas[i].id = id]

\* try_alloc for an item of `size` bytes would pop a free list whose head is a
\* link read from a slot in use
GarbageHead(al, size) ==
    /\ size_class_fits(Max(size, 8))
    /\ \E i \in 1..Len(al.typed_arenas) :
         /\ al.typed_arenas[i].slot_size =
               SIZE_CLASSES[size_class_index_for(Max(size, 8))]
         /\ al.typed_arenas[i].free_list # << >>
         /\ Head(al.typed_arenas[i].free_list) = GARBAGE

\* ArenaAllocator::try_alloc(value) with size_of::<ArenaHeapItem<T>>() = size;
\* debug: the build has debug assertions, and the debug_assert! of
\* size_class_index_for panics before anything is changed
TryAllocUpTo(max, size, debug) ==
    /\ pc = "idle"
    /\ ops.allocs < max
    /\ ~GarbageHead(allocator, size)
    /\ ops' = [ops EXCEPT !.allocs = @ + 1]
    /\ IF debug /\ ~size_class_fits(Max(size, 8))
       THEN UNCHANGED <<allocator, items>>
       ELSE LET r == try_alloc(allocator, size)
            IN  /\ allocator' = r.al
                /\ items' = IF r.ok THEN items \cup {[ptr |-> r.ptr, size |-> size]}
                             ELSE items
    /\ UNCHANGED <<heap, ephs, root_queue, ephemeron_queue, pending_root_queue,
                   pending_ephemeron_queue, trace_color, collect_needed,
                   is_collecting, pc, cb, sweep, cont, raws, hist, weak_maps>>

TryAlloc(size, debug) == TryAllocUpTo(MaxAllocs, size, debug)

\* ArenaAllocator::free_slot(ptr) on an item in use
FreeSlot(it) ==
    /\ pc = "idle"
    /\ it \in items
    /\ allocator' = free_slot(allocator, it.ptr)
    /\ items' = items \ {it}
    /\ UNCHANGED <<heap, ephs, root_queue, ephemeron_queue, pending_root_queue,
                   pending_ephemeron_queue, trace_color, collect_needed,
                   is_collecting, pc, cb, sweep, cont, raws, hist, ops, weak_maps>>

\* ArenaAllocator::drop_dead_arenas()
DropDeadArenas ==
    /\ pc = "idle"
    /\ allocator' = drop_dead_arenas(allocator)
    /\ UNCHANGED <<heap, ephs, root_queue, ephemeron_queue, pending_root_queue,
                   pending_ephemeron_queue, trace_color, collect_needed,
                   is_collecting, pc, cb, sweep, cont, raws, items, hist, ops,
                   weak_maps>>

\* items of every size allocated, freed and their arenas reclaimed
NextSizeClass ==
    \/ \E size \in ItemSizes, debug \in BOOLEAN : TryAlloc(size, debug)
    \/ \E it \in items : FreeSlot(it)
    \/ DropDeadArenas

SpecSizeClass == Init /\ [][NextSizeClass]_vars

\* the item sizes of a GcBox and of an ephemeron (two size classes)
ReuseSizes == {GcBoxSize, EphemeronSize}

\* try_alloc, at most MaxReuseAllocs times
ReuseAlloc(size) == TryAllocUpTo(MaxReuseAllocs, size, FALSE)

\* items of two size classes allocated until their arenas are full, and freed
NextReuse ==
    \/ \E size \in ReuseSizes : ReuseAlloc(size)
    \/ \E it \in items : FreeSlot(it)
    \/ DropDeadArenas

SpecReuse == Init /\ [][NextReuse]_vars

\* the free lists of the arenas of this slot size whose head is GARBAGE, with
\* the link taken to be null (ub = GARBAGE) or the address of slot ub
WithHead(al, slot_size, ub) ==
    [al EXCEPT !.typed_arenas =
        [i \in 1..Len(al.typed_arenas) |->
            LET a == al.typed_arenas[i]
            IN  IF a.slot_size = slot_size /\ a.free_list # << >>
                   /\ Head(a.free_list) = GARBAGE
                THEN [a EXCEPT !.free_list = IF ub = GARBAGE THEN << >>
                                             ELSE <<ub, GARBAGE>>]
                ELSE a]]

\* ArenaAllocator::try_alloc(value) popping a free list whose head was read
\* from a slot in use (undefined behaviour): alloc_slot finds a null pointer
\* there, or the address of some slot ub, whose first word becomes the next head
TryAllocGarbage(size, ub) ==
    /\ pc = "idle"
    /\ ops.allocs < MaxAllocs + MaxGarbageAllocs
    /\ GarbageHead(allocator, size)
    /\ ops' = [ops EXCEPT !.allocs = @ + 1]
    /\ LET slot_size == SIZE_CLASSES[size_class_index_for(Max(size, 8))]
           r == try_alloc(WithHead(allocator, slot_size, ub), size)
       IN  /\ allocator' = r.al
           /\ items' = IF r.ok THEN items \cup {[ptr |-> r.ptr, size |-> size]}
                        ELSE items
    /\ UNCHANGED <<heap, ephs, root_queue, ephemeron_queue, pending_root_queue,
                   pending_ephemeron_queue, trace_color, collect_needed,
                   is_collecting, pc, cb, sweep, cont, raws, hist, weak_maps>>

\* ArenaAllocator::free_slot(ptr) on a slot that was freed before and not
\* handed out since: an arena owns the pointer and Arena::free_slot runs
FreeSlotAgain(id, idx) ==
    /\ pc = "idle"
    /\ \E i \in 1..Len(allocator.typed_arenas) :
         /\ allocator.typed_arenas[i].id = id
         /\ idx < allocator.typed_arenas[i].bump
         /\ idx \notin allocator.typed_arenas[i].bitmap
    /\ allocator' = free_slot(allocator, [arena |-> id, idx |-> idx])
    /\ UNCHANGED <<heap, ephs, root_queue, ephemeron_queue, pending_root_queue,
                   pending_ephemeron_queue, trace_color, collect_needed,
                   is_collecting, pc, cb, sweep, cont, raws, items, hist, ops,
                   weak_maps>>

\* the sizes of the two smallest slot classes
SmallSizes == {8, SIZE_CLASSES[1], SIZE_CLASSES[2]}

\* items allocated and freed, and slots freed twice
NextDoubleFree ==
    \/ \E size \in SmallSizes, debug \in BOOLEAN : TryAlloc(size, debug)
    \/ \E size \in SmallSizes, ub \in {GARBAGE} \cup 0..MaxGarbageSlot :
          TryAllocGarbage(size, ub)
    \/ \E it \in items : FreeSlot(it)
    \/ \E id \in 1..(MaxAllocs + MaxGarbageAllocs), idx \in 0..(MaxAllocs - 1) :
          FreeSlotAgain(id, idx)
    \/ DropDeadArenas

SpecDoubleFree == Init /\ [][NextDoubleFree]_vars

\* the root counts the header functions are applied to
CountSamples == {0, 1, 2, U16Max - 1, U16Max}

\* headers on their own (no GcBox in any arena), with any of the sample counts
InitCount ==
    /\ heap \in [Objs -> {[Unborn EXCEPT !.root_count = c] : c \in CountSamples}]
    /\ ephs = [e \in Ephs |-> UnbornEph]
    /\ allocator = NewAllocator
    /\ root_queue = << >>
    /\ ephemeron_queue = << >>
    /\ pending_root_queue = << >>
    /\ pending_ephemeron_queue = << >>
    /\ trace_color = "White"
    /\ collect_needed = FALSE
    /\ is_collecting = FALSE
    /\ pc = "idle"
    /\ cb = NoCb
    /\ sweep = NoSweep
    /\ cont = NoCont
    /\ raws = {}
    /\ items = {}
    /\ hist = NewHist
    /\ ops = NoOps
    /\ weak_maps = << >>

\* GcHeader::inc_roots on the header of o; a panic leaves the header as it was
IncRoots(o) ==
    /\ ops.counts < MaxCountOps
    /\ heap' = [heap EXCEPT ![o] = IF inc_roots_panics(@) THEN @ ELSE inc_roots(@)]
    /\ ops' = [ops EXCEPT !.counts = @ + 1,
                          !.overflow = inc_roots_panics(heap[o])]
    /\ UNCHANGED hist
    /\ HeapOnly

\* GcHeader::dec_roots on the header of o
DecRoots(o) ==
    /\ ops.counts < MaxCountOps
    /\ heap' = [heap EXCEPT ![o] = dec_roots(@)]
    /\ ops' = [ops EXCEPT !.counts = @ + 1, !.floor = (heap[o].root_count = 0)]
    /\ UNCHANGED hist
    /\ HeapOnly

\* the header functions applied in any order
NextCount ==
    \/ \E o \in Objs : IncRoots(o)
    \/ \E o \in Objs : DecRoots(o)

SpecCount == InitCount /\ [][NextCount]_vars

\* the three header colors
HeaderColors == {"White", "Grey", "Black"}

\* every value of the flag byte (u8)
FlagBytes == 0..255

\* one header on its own, with any flag byte
InitFlags ==
    /\ heap \in {[o \in Objs |-> IF o = 1 THEN [Unborn EXCEPT !.flags = f]
                                           ELSE Unborn] : f \in FlagBytes}
    /\ ephs = [e \in Ephs |-> UnbornEph]
    /\ allocator = NewAllocator
    /\ root_queue = << >>
    /\ ephemeron_queue = << >>
    /\ pending_root_queue = << >>
    /\ pending_ephemeron_queue = << >>
    /\ trace_color = "White"
    /\ collect_needed = FALSE
    /\ is_collecting = FALSE
    /\ pc = "idle"
    /\ cb = NoCb
    /\ sweep = NoSweep
    /\ cont = NoCont
    /\ raws = {}
    /\ items = {}
    /\ hist = NewHist
    /\ ops = NoOps
    /\ weak_maps = << >>

\* GcHeader::mark(color) on the header, at most MaxMarks times
Mark(color) ==
    /\ ops.counts < MaxMarks
    /\ heap' = [heap EXCEPT ![1].flags = mark(@, color)]
    /\ ops' = [ops EXCEPT !.counts = @ + 1]
    /\ UNCHANGED hist
    /\ HeapOnly

NextFlags == \E color \in HeaderColors : Mark(color)

SpecFlags == InitFlags /\ [][NextFlags]_vars

\* a mutator that clones Root handles and moves them into new nodes
NextRoots ==
    \/ RootNewIn(NULL)
    \/ \E o \in Objs : RootNewInRoot(o)
    \/ \E o \in Objs : RootClone(o)
    \/ \E o \in Objs : RootDrop(o)
    \/ NodeCycle

SpecRoots == Init /\ [][NextRoots]_vars

\* a mutator that builds lists, moves Root handles into nodes and roots a node
\* again from inside its finalize hook
NextRevive ==
    \/ \E n \in Objs \cup {NULL} : RootNewIn(n)
    \/ \E o \in Objs : RootNewInRoot(o)
    \/ \E o \in Objs : RootClone(o)
    \/ \E o \in Objs : RootDrop(o)
    \/ \E o \in Objs : RootFinalize(o)
    \/ Revive
    \/ ReviveLate
    \/ NodeCycle

SpecRevive == Init /\ [][NextRevive]_vars

\* ------------------------------------------------------------- properties
\* collect() has just returned normally and nothing has happened since
JustCompleted == pc \in {"idle", "resume"} /\ hist.last = "completed"

\* collect() has just been unwound by a panic
JustAborted == pc = "idle" /\ hist.last = "aborted"

\* the allocator still holds the typed arena this slot lies in
ArenaHeld(slot) ==
    \E i \in 1..Len(allocator.typed_arenas) : allocator.typed_arenas[i].id = slot.arena

\* the allocator still holds the raw arena this block lies in
RawArenaHeld(b) ==
    \E i \in 1..Len(allocator.raw_arenas) : allocator.raw_arenas[i].id = b.arena

C2_ReachableSurvive == hist.reach0 \cap hist.freed = {}

\* C3: after collect() returns with no allocation during the cycle, the root
\* queue holds no object that was unreachable when the cycle started and the
\* ephemeron queue holds no inactive ephemeron.
C3_QueuesHoldNoGarbage ==
    (JustCompleted /\ hist.born = {} /\ hist.born_ephs = {}) =>
        /\ Range(root_queue) \cap (Range(hist.rq0) \ hist.reach0) = {}
        /\ Range(ephemeron_queue) \cap hist.inactive0 = {}

\* C4: when every Root handle has been dropped and no raw allocation is
\* outstanding, one collect() (during which the callbacks allocate nothing)
\* frees every object and reclaims every arena: arenas_len() = 0 afterwards,
\* on the first round and on every repetition.
C4_CollectReclaimsAll ==
    (/\ JustCompleted
     /\ hist.rooted0 = {}
     /\ hist.born = {} /\ hist.born_ephs = {}
     /\ Rooted(heap) = {}
     /\ raws = {}) => arenas_len(allocator) = 0

\* an arena holds something: a slot that was allocated and not freed, or a raw
\* block that was handed out and not deallocated
TypedArenaInUse(a) ==
    \/ \E o \in Objs : heap[o].st \in {"live", "dropped"} /\ heap[o].slot.arena = a.id
    \/ \E e \in Ephs : ephs[e].st = "live" /\ ephs[e].slot.arena = a.id

RawArenaInUse(a) == \E b \in raws : b.arena = a.id

\* C5: drop_dead_arenas removes an arena if and only if its drop check holds
\* (live = 0, active_raw_allocs = 0, every bitmap word zero): an arena that
\* holds a live slot or an outstanding raw allocation is never reclaimed, and
\* when collect() returns no arena whose slots have all been freed is left.
C5_DropDeadArenas ==
    /\ \A o \in Objs : heap[o].st \in {"live", "dropped"} => ArenaHeld(heap[o].slot)
    /\ \A e \in Ephs : ephs[e].st = "live" => ArenaHeld(ephs[e].slot)
    /\ \A b \in raws : RawArenaHeld(b)
    /\ JustCompleted =>
         /\ \A i \in 1..Len(allocator.typed_arenas) :
               /\ TypedArenaInUse(allocator.typed_arenas[i])
               /\ ~run_drop_check(allocator.typed_arenas[i])
         /\ \A i \in 1..Len(allocator.raw_arenas) :
               /\ RawArenaInUse(allocator.raw_arenas[i])
               /\ ~run_drop_check(allocator.raw_arenas[i])

\* a collection has returned that reclaimed an arena whose slots were all
\* freed and kept an arena with an outstanding raw block
C5_Witness ==
    /\ JustCompleted
    /\ hist.freed # {}
    /\ raws # {}
    /\ allocator.typed_arenas = << >>
    /\ Len(allocator.raw_arenas) = 1

\* C6: collect() is idempotent at steady state: run on the state a completed
\* collect() left, with nothing created, cloned, dropped or allocated in
\* between, it leaves the root queue and the ephemeron queue identical.
C6_Idempotent ==
    (JustCompleted /\ hist.steady0) =>
        /\ root_queue = hist.rq0
        /\ ephemeron_queue = hist.eq0

\* an allocation is made by this step
NodeBorn == NextObj' > NextObj
EphemeronBorn == NextEph' > NextEph
RawBorn == raws' \ raws # {}

\* the heap is above the collection threshold (75% of heap_threshold)
AboveThreshold(al) == al.current_heap_size > (al.heap_threshold * 3) \div 4

C7_Step ==
    /\ (NodeBorn \/ EphemeronBorn) /\ AboveThreshold(allocator') => collect_needed'
    /\ (cont.op = "none" /\ cont'.op # "none") =>
          /\ collect_needed /\ ~is_collecting
          /\ ~collect_needed'
          /\ hist'.cycles = hist.cycles + 1
    /\ (NodeBorn \/ EphemeronBorn \/ RawBorn) /\ ~is_collecting =>
          IF pc = "resume"
          THEN hist.cycles = cont.cycles0 + 1 /\ hist.last = "completed"
          ELSE ~collect_needed /\ hist'.cycles = hist.cycles
    /\ is_collecting => hist'.cycles = hist.cycles

InAllocationOrder(q, S) ==
    /\ Len(q) = Cardinality(S)
    /\ Range(q) = S
    /\ \A i, j \in 1..Len(q) : i < j => q[i] < q[j]

\* the last k elements of q
LastK(q, k) == IF k > Len(q) THEN q ELSE SubSeq(q, Len(q) - k + 1, Len(q))

\* C8: a node allocated while is_collecting is true is pushed to the pending
\* root / pending ephemeron queue and not to the main queue; at the end of the
\* cycle the pending queues are appended to the main queues in allocation
\* order; whenever is_collecting is false both pending queues are empty.
C8_PendingQueues ==
    /\ is_collecting =>
          /\ hist.born \subseteq Range(pending_root_queue)
          /\ hist.born \cap Range(root_queue) = {}
          /\ hist.born_ephs \subseteq Range(pending_ephemeron_queue)
          /\ hist.born_ephs \cap Range(ephemeron_queue) = {}
    /\ JustCompleted =>
          /\ InAllocationOrder(LastK(root_queue, Cardinality(hist.born)), hist.born)
          /\ InAllocationOrder(LastK(ephemeron_queue, Cardinality(hist.born_ephs)),
                               hist.born_ephs)
    /\ ~is_collecting =>
          /\ pending_root_queue = << >>
          /\ pending_ephemeron_queue = << >>

\* C9: a node allocated while a collection is running is born with the header
\* color that counts as alive in that cycle, and that cycle's sweep does not
\* free it.
C9_BornAlive ==
    /\ hist.born_dead = {}
    /\ hist.born \cap hist.freed = {}
    /\ hist.born_ephs \cap hist.freed_ephs = {}

\* C10: when a trace, finalize or drop callback panics during collect(), after
\* the unwind is_collecting is false, trace_color has the value it had before
\* the cycle, every node that was queued and has not been freed is still
\* queued, and the collector is at rest, so that the next collect() starts a
\* cycle at the mark phase.
C10_PanicLeavesConsistent ==
    JustAborted =>
        /\ ~is_collecting
        /\ trace_color = hist.color0
        /\ Range(hist.rq0) \ hist.freed \subseteq Range(root_queue)
        /\ Range(hist.eq0) \ hist.freed_ephs \subseteq Range(ephemeron_queue)
        /\ cb = NoCb /\ sweep = NoSweep

\* the collector has just been dropped
Dropping == pc = "idle" /\ pc' = "gone"

\* C11: when the collector is dropped and no node has root_count > 0, the
\* forced sweep calls the drop function of every node and ephemeron still
\* allocated and frees its slot.
C11_Step ==
    (Dropping /\ Rooted(heap) = {}) =>
        /\ \A o \in Live(heap) : heap'[o].st = "freed"
        /\ \A e \in LiveEphs(ephs) : ephs'[e].st = "freed"

C11_ForcedSweep == [][C11_Step]_vars

\* C12: when the collector is dropped while some node has root_count > 0,
\* the storage is leaked: no drop function runs, no slot is freed and no
\* arena buffer is deallocated.
C12_Step ==
    (Dropping /\ Rooted(heap) # {}) =>
        /\ heap' = heap
        /\ ephs' = ephs
        /\ allocator'.typed_arenas = allocator.typed_arenas
        /\ allocator'.raw_arenas = allocator.raw_arenas

C12_LeakKeepsStorage == [][C12_Step]_vars

\* the nodes reachable from the value of ephemeron e
ValueReach(e) == ReachFrom(heap, {ephs[e].vnext} \ {NULL})

\* C13: an ephemeron never keeps its own key alive: a key that, when the
\* cycle starts, is reachable only through the value of its ephemeron (or
\* through values of ephemerons whose keys are unreachable) is freed by
\* collect(), and the ephemeron is dropped.
C13_KeyNotKeptAlive ==
    (JustCompleted /\ hist.born = {} /\ hist.born_ephs = {}) =>
        \A e \in Range(hist.eq0) :
            (ephs[e].key \in Range(hist.rq0) \ hist.ereach0) =>
                /\ heap[ephs[e].key].st = "freed"
                /\ ephs[e].st = "freed"

\* C14: after collect(), for every ephemeron still in the ephemeron queue,
\* every object reachable from its value is still allocated, also when its
\* key is reachable only through another ephemeron's value, whatever the
\* order of the queue.
C14_ValueKeptAlive ==
    JustCompleted =>
        \A i \in 1..Len(ephemeron_queue) :
            LET e == ephemeron_queue[i]
            IN  ephs[e].st = "live" =>
                    \A o \in ValueReach(e) : heap[o].st = "live"

\* the mutator is between two operations and holds a weak map
MapAtRest == pc = "idle" /\ weak_maps # << >>

\* C15: the collect() that frees a weak-map key has, before it frees the key,
\* dropped and freed the ephemeron that backs its entry, and has removed the
\* entry; between operations an alive weak map holds no entry whose key
\* object or whose ephemeron has been freed.
C15_NoDeadEntries ==
    /\ \A o \in hist.freed : \A e \in Range(hist.eq0) :
          (heap[o].st = "freed" /\ ephs[e].key = o) => ephs[e].st = "freed"
    /\ MapAtRest =>
          \A en \in weak_maps[1].entries :
              /\ ephs[en.ptr].st = "live"
              /\ heap[ephs[en.ptr].key].st # "freed"
              /\ ephs[en.ptr].key \notin hist.freed

\* C16: after insert(K, V), get(K) returns V and is_key_alive(K) is true,
\* across any number of collect() calls, as long as K is reachable and the
\* entry has been neither removed nor replaced.
C16_InsertThenGet ==
    MapAtRest =>
        \A k \in Reachable(heap) :
            ops.expect[k] # NULL =>
                /\ get(weak_maps[1], k) = ops.expect[k]
                /\ is_key_alive(weak_maps[1], k)

\* the live ephemerons created for key k
EphemeronsOf(k) == {e \in LiveEphs(ephs) : ephs[e].key = k}

\* C17: insert on a key that has an entry replaces it: between operations the
\* key has exactly one entry, get returns the ephemeron of the last insert and
\* every earlier ephemeron of the key is inactive; a collect() that returns
\* has dropped and freed every ephemeron that was inactive when it started;
\* and after the key's last Root is dropped, a collect() that returns leaves
\* no ephemeron created for that key allocated.
C17_InsertReplaces ==
    /\ MapAtRest =>
          \A k \in Rooted(heap) :
              ops.expect[k] # NULL =>
                  /\ Cardinality(EntriesAt(weak_maps[1], key_addr(heap, k))) = 1
                  /\ get(weak_maps[1], k) = ops.expect[k]
                  /\ \A e \in EphemeronsOf(k) \ {ops.expect[k]} : ~ephs[e].active
    /\ JustCompleted => \A e \in hist.inactive0 : ephs[e].st = "freed"
    /\ (JustCompleted /\ hist.born = {} /\ hist.born_ephs = {}) =>
          \A k \in Range(hist.rq0) \ hist.rooted0 : EphemeronsOf(k) = {}

\* C18: remove(K) returns true exactly when an entry for K existed; after it
\* get(K) is None and is_key_alive(K) is false, and the ephemeron of the entry
\* is inactive.
C18_RemoveStep ==
    \A k \in Objs :
        WeakMapRemove(k) =>
            LET old == get(weak_maps[1], k)
                addr == key_addr(heap, k)
            IN  /\ ops'.ret = (old # NULL)
                /\ EntriesAt(weak_maps'[1], addr) = {}
                /\ old # NULL => ~ephs'[old].active

\* C18, continued: the next collect() drops the ephemeron that remove made
\* inactive and frees its slot, even when K is still rooted.
C18_Remove ==
    /\ [][C18_RemoveStep]_vars
    /\ [](JustCompleted =>
            \A e \in ops.removed \cap hist.inactive0 : ephs[e].st = "freed")

\* the Root handles to o that exist: those the mutator holds and those that
\* are the value of a node not yet dropped
OutstandingRoots(o) ==
    heap[o].handles +
        Cardinality({x \in Live(heap) : heap[x].owns_root /\ heap[x].next = o})

\* C19: between operations the root_count of every object equals the number
\* of outstanding Root handles to it.
C19_RootCount ==
    pc = "idle" => \A o \in Live(heap) : heap[o].root_count = OutstandingRoots(o)

\* C20: inc_roots on a count of 65535 panics and leaves the count at 65535
\* (it never wraps to 0), on any smaller count it adds one; dec_roots on a
\* count of 0 leaves 0, on any other count it subtracts one.
C20_Step ==
    \A o \in Objs :
        /\ IncRoots(o) =>
              IF heap[o].root_count = U16Max
              THEN ops'.overflow /\ heap'[o].root_count = U16Max
              ELSE ~ops'.overflow /\ heap'[o].root_count = heap[o].root_count + 1
        /\ DecRoots(o) =>
              IF heap[o].root_count = 0
              THEN heap'[o].root_count = 0
              ELSE heap'[o].root_count = heap[o].root_count - 1

C20_CountLimits == [][C20_Step]_vars

\* an increment has panicked on a count of 65535 and a decrement has met a
\* count of 0
C20_Witness ==
    /\ ops.overflow /\ ops.floor
    /\ \E o \in Objs : heap[o].root_count = U16Max
    /\ \E o \in Objs : heap[o].root_count = 0

\* the smallest size class that holds `needed` bytes (no such class: 0)
SmallestClass(needed) ==
    LET fit == {SIZE_CLASSES[k] : k \in 1..Len(SIZE_CLASSES)} \cap
               {c \in 1..SIZE_CLASSES[Len(SIZE_CLASSES)] : c >= needed}
    IN  IF fit = {} THEN 0 ELSE CHOOSE c \in fit : \A d \in fit : c <= d

\* C21: every item try_alloc hands out lies in an arena whose slot_size is the
\* smallest size class >= max(size, 8), and the slot is not smaller than the
\* item.
C21_SizeClass ==
    \A it \in items :
        LET a == TypedArena(allocator, it.ptr.arena)
        IN  /\ a.slot_size = SmallestClass(Max(it.size, 8))
            /\ a.slot_size >= it.size

\* C22: current_heap_size is the sum of the buffer sizes of the arenas held.
C22_HeapSize ==
    allocator.current_heap_size =
        SumSizes(allocator.typed_arenas) + SumSizes(allocator.raw_arenas)

\* C23: whenever is_below_threshold() holds, the heap size leaves room for one
\* more arena: heap_size <= heap_threshold - arena_size.
C23_BelowThreshold ==
    is_below_threshold(allocator) =>
        allocator.current_heap_size <= allocator.heap_threshold - allocator.arena_size

\* a collection run on behalf of an allocation call (heap pressure) completes
PressureCollectCompletes ==
    pc = "drop_roots" /\ pc' = "resume" /\ cont.op # "none"

C24_Step ==
    PressureCollectCompletes /\ ~is_below_threshold(allocator') =>
        allocator'.heap_threshold =
            allocator.heap_threshold + allocator.arena_size * 4

\* C24: when a collection triggered by heap pressure does not bring the heap
\* back below the threshold, heap_threshold is increased by arena_size * 4.
C24_ThresholdGrows == [][C24_Step]_vars

\* the slot of index p in arena a, as a pointer
SlotPtr(a, p) == [arena |-> a.id, idx |-> p]

\* C25: in an arena, alloc_slot called after free_slot(p) returns p; freed
\* slots are reused in last-freed-first order, and the free list is used up
\* before a never-used slot is bump-allocated.
C25_LifoFreeList ==
    \A i \in 1..Len(allocator.typed_arenas) :
        LET a == allocator.typed_arenas[i]
        IN  /\ a.free_list # << >> =>
                 LET r == alloc_slot(a)
                 IN  r.ok /\ r.arena.bump = a.bump /\ r.idx \notin a.bitmap
            /\ \A p \in a.bitmap :
                 LET r == alloc_slot(arena_free_slot(a, SlotPtr(a, p)))
                 IN  /\ r.ok /\ r.idx = p
                     /\ r.arena.bump = a.bump
                     /\ r.arena.free_list = a.free_list
            /\ \A p, q \in a.bitmap :
                 p # q =>
                   LET f == arena_free_slot(arena_free_slot(a, SlotPtr(a, p)),
                                            SlotPtr(a, q))
                       r1 == alloc_slot(f)
                       r2 == alloc_slot(r1.arena)
                   IN  /\ r1.ok /\ r1.idx = q
                       /\ r2.ok /\ r2.idx = p
                       /\ r2.arena.bump = a.bump

\* an arena with one freed slot on its free list and two slots in use
C25_Witness ==
    \E i \in 1..Len(allocator.typed_arenas) :
        LET a == allocator.typed_arenas[i]
        IN  /\ Len(a.free_list) = 1
            /\ Cardinality(a.bitmap) = 2
            /\ a.bump = 3
            /\ Cardinality(items) = 2

\* C26: for every typed arena, live equals the number of set bits in the
\* bitmap, after any sequence of alloc_slot, free_slot and mark_slot calls made
\* by the allocator and the collector (the mark phase marking ephemeron slots
\* included).
C26_LiveIsPopcount ==
    \A i \in 1..Len(allocator.typed_arenas) :
        allocator.typed_arenas[i].live =
            Cardinality(allocator.typed_arenas[i].bitmap)

\* a collection has completed in which one ephemeron was marked in the bitmap
\* of an arena and survived, and another slot of that arena was freed
C26_Witness ==
    /\ pc = "idle" /\ hist.last = "completed"
    /\ \E e \in Range(ephemeron_queue) \cap Range(hist.eq0) :
         \E i \in 1..Len(allocator.typed_arenas) :
            LET a == allocator.typed_arenas[i]
            IN  /\ ephs[e].slot.arena = a.id
                /\ ephs[e].slot.idx \in a.bitmap
                /\ a.free_list # << >>
                /\ \E f \in hist.freed_ephs : ephs[f].slot.arena = a.id

\* the raw arena with buffer `id`
RawArena(al, id) ==
    al.raw_arenas[CHOOSE i \in 1..Len(al.raw_arenas) : al.raw_arenas[i].id = id]

\* blocks b and c share no byte
Disjoint(b, c) ==
    \/ b.arena # c.arena
    \/ b.off + b.size <= c.off
    \/ c.off + c.size <= b.off

\* C27: in a raw arena, every block returned by alloc_bytes lies at or after
\* the end of the bitmap and inside the buffer, and no two outstanding raw
\* blocks overlap, after any sequence of alloc_bytes, dealloc_bytes and
\* shrink_bytes_in_place; shrink_bytes_in_place rewinds the bump position by
\* old - new only when the block ends exactly at the bump position, and
\* otherwise changes nothing.
C27_RawBlocks ==
    /\ \A b \in raws :
         /\ \E i \in 1..Len(allocator.raw_arenas) :
               allocator.raw_arenas[i].id = b.arena
         /\ LET a == RawArena(allocator, b.arena)
            IN  /\ b.off >= bitmap_bytes(a)
                /\ b.off + b.size <= a.bump
                /\ a.bump <= a.size
                /\ \A new_size \in 0..b.size :
                     LET r == shrink_bytes_in_place(allocator, b, b.size, new_size)
                     IN  IF b.off + b.size = a.bump
                         THEN /\ r.ok
                              /\ RawArena(r.al, b.arena) =
                                   [a EXCEPT !.bump = a.bump - (b.size - new_size)]
                              /\ \A j \in 1..Len(allocator.raw_arenas) :
                                   allocator.raw_arenas[j].id # b.arena =>
                                     r.al.raw_arenas[j] = allocator.raw_arenas[j]
                         ELSE ~r.ok /\ r.al = allocator
    /\ \A b, c \in raws : b # c => Disjoint(b, c)

\* two blocks are in use in one raw arena, after the second was shrunk in
\* place and the bump position rewound to its new end
C27_Witness ==
    \E b, c \in raws :
        /\ b.arena = c.arena
        /\ b.size = RawBlockSize /\ c.size = RawBlockSize \div 2
        /\ c.off = b.off + b.size
        /\ RawArena(allocator, b.arena).bump = c.off + c.size

\* the blocks in use that lie in the raw arena a
BlocksIn(a) == {b \in raws : b.arena = a.id}

\* C28: for every raw arena, active_raw_allocs equals the number of blocks
\* allocated from it and not yet deallocated, across allocate, deallocate,
\* grow and shrink (in place or by copy); after a container's storage has been
\* fully deallocated the next collect() leaves no raw arena, and a raw block
\* still in use survives collect().
C28_ActiveRawAllocs ==
    /\ \A i \in 1..Len(allocator.raw_arenas) :
         allocator.raw_arenas[i].active_raw_allocs =
             Cardinality(BlocksIn(allocator.raw_arenas[i]))
    /\ \A b \in raws : RawArenaHeld(b)
    /\ JustCompleted /\ raws = {} => allocator.raw_arenas = << >>

\* collect() has returned while the only block in use is one that grow moved
\* behind its old place in the same arena
C28_Witness ==
    /\ JustCompleted
    /\ \E b \in raws :
         /\ raws = {b}
         /\ b.size = 2 * RawBlockSize
         /\ b.off > bitmap_bytes(RawArena(allocator, b.arena))
         /\ RawArena(allocator, b.arena).active_raw_allocs = 1

\* C29: free_slot on a slot whose bitmap bit is already clear (a double free)
\* is detected by checking the bit before clearing it, and the slot is not
\* pushed onto the free list a second time: alloc_slot never hands out the same
\* slot to two live allocations.
C29_DoubleFreeDetected ==
    /\ \A i \in 1..Len(allocator.typed_arenas) :
         LET fl == allocator.typed_arenas[i].free_list
         IN  /\ \A j, k \in 1..Len(fl) : fl[j] = fl[k] => j = k
             /\ GARBAGE \notin Range(fl)
             /\ Range(fl) \cap allocator.typed_arenas[i].bitmap = {}
    /\ \A it, other \in items : it.ptr = other.ptr => it = other

C30_Step == is_collecting => ~RawBorn

\* C30: a raw-byte allocation requested while is_collecting is true is
\* rejected by a debug assertion: no raw block is carved from an arena while a
\* collection cycle is running.
C30_NoRawWhileCollecting == [][C30_Step]_vars

\* C31: an unreachable object that is rooted when its finalize hook returns
\* (revival) is re-traced and kept: neither it nor any object reachable from it
\* is dropped or freed in that cycle, whatever the positions of those objects
\* in the root queue.
C31_RevivalKeeps ==
    \A x \in hist.revived :
        \A y \in ReachFrom(heap, {x}) :
            y \notin hist.freed /\ heap[y].st = "live"

\* a collect() call has finished its mark phase and has not returned
InCycle == pc \in {"sweep_roots", "sweep_ephs", "drop_ephs", "drop_roots"}

\* the step is the mark phase and the weak-map prune of a collect() call
CycleBegins == hist'.cycles = hist.cycles + 1 /\ hist'.last = "running"

\* the step is the end of a collect() call that returns
CycleCompletes == hist.last = "running" /\ hist'.last = "completed"

\* the weak maps were pruned against the marks of this cycle: no entry is left
\* whose key the mark phase did not reach, and the entry of every rooted key of
\* the root queue is kept
PrunedAfterMark ==
    \A i \in 1..Len(weak_maps') :
        /\ \A en \in weak_maps'[i].entries :
               (ephs'[en.ptr].st = "live" /\ heap'[ephs'[en.ptr].key].st = "live")
               => /\ ephs'[en.ptr].active
                  /\ is_reachable_flags(heap'[ephs'[en.ptr].key].flags, trace_color)
        /\ i <= Len(weak_maps) =>
               \A en \in weak_maps[i].entries :
                   (/\ ephs'[en.ptr].st = "live" /\ ephs'[en.ptr].active
                    /\ ephs'[en.ptr].key \in Rooted(heap) \cap Range(root_queue))
                   => en \in weak_maps'[i].entries

\* C32: every collect() that returns runs, in this order, the mark phase, the
\* prune of the weak maps, the sweep, the flip of the trace color, the reclaim
\* of the empty arenas and the flush of the pending queues; the trace color
\* flips exactly once per completed cycle, at its end, and is_collecting is
\* true during all of these steps.
C32_Step ==
    /\ InCycle => is_collecting
    /\ CycleBegins =>
           /\ PrunedAfterMark
           /\ is_collecting'
           /\ hist'.freed = {} /\ hist'.freed_ephs = {}
           /\ trace_color' = trace_color
    /\ (hist'.freed \ hist.freed # {} \/ hist'.freed_ephs \ hist.freed_ephs # {}) =>
           /\ InCycle /\ InCycle'
           /\ trace_color = hist.color0 /\ trace_color' = trace_color
           /\ pending_root_queue' = pending_root_queue
           /\ pending_ephemeron_queue' = pending_ephemeron_queue
    /\ trace_color' # trace_color => CycleCompletes
    /\ CycleCompletes =>
           /\ trace_color = hist.color0 /\ trace_color' = flip(hist.color0)
           /\ hist'.freed = hist.freed /\ hist'.freed_ephs = hist.freed_ephs
           /\ \A i \in 1..Len(allocator'.typed_arenas) :
                  ~run_drop_check(allocator'.typed_arenas[i])
           /\ \A i \in 1..Len(allocator'.raw_arenas) :
                  ~run_drop_check(allocator'.raw_arenas[i])
           /\ pending_root_queue' = << >> /\ pending_ephemeron_queue' = << >>
           /\ LastK(root_queue', Len(pending_root_queue)) = pending_root_queue
           /\ LastK(ephemeron_queue', Len(pending_ephemeron_queue))
                  = pending_ephemeron_queue
           /\ is_collecting /\ ~is_collecting'

C32_CollectOrder == [][C32_Step]_vars

\* a cycle over a collector with a weak map has just returned: it freed a node
\* and flushed a node allocated during the sweep, and the color is flipped
C32_Witness ==
    /\ hist.last = "completed" /\ hist.steady
    /\ hist.freed # {} /\ hist.born # {}
    /\ weak_maps # << >>
    /\ hist.born \subseteq Range(root_queue)
    /\ trace_color = flip(hist.color0)
    /\ ~is_collecting

\* the elements of q that belong to S, in the order of q
Restrict(q, S) == SelectSeq(q, LAMBDA x : x \in S)

\* q0, the queue when the cycle started, and q, the queue it left: the
\* survivors keep their order and the nodes of `born` follow them, in
\* allocation order
OrderKept(q0, q, born) ==
    /\ Restrict(q, Range(q0)) = Restrict(q0, Range(q))
    /\ \A i, j \in 1..Len(q) :
           (q[i] \in born /\ q[j] \in Range(q0)) => j < i
    /\ \A i, j \in 1..Len(q) :
           (q[i] \in born /\ q[j] \in born /\ i < j) => q[i] < q[j]

\* C33: collect() preserves the relative order of the nodes that survive it,
\* in the root queue and in the ephemeron queue: two survivors keep the order
\* they had before the cycle, and the nodes allocated during the cycle come
\* after them in allocation order.
C33_OrderPreserved ==
    (hist.last = "completed" /\ hist.steady) =>
        /\ OrderKept(hist.rq0, root_queue, hist.born)
        /\ OrderKept(hist.eq0, ephemeron_queue, hist.born_ephs)

\* C34: every free_slot call the collector makes for a node (a GC node or an
\* ephemeron node) happens after that node's drop_fn has returned and while
\* is_collecting is true, in the sweep of collect() and in the forced sweep at
\* collector teardown alike (so that an allocation made from inside a
\* destructor goes to a pending queue and never starts a collection).
C34_Step ==
    /\ \A x \in Objs :
           (heap[x].st # "freed" /\ heap'[x].st = "freed") =>
               /\ is_collecting
               /\ \/ cb = [kind |-> "drop", id |-> x]
                  \/ Dropping
    /\ \A e \in Ephs :
           (ephs[e].st # "freed" /\ ephs'[e].st = "freed") => is_collecting

C34_FreeWhileCollecting == [][C34_Step]_vars

\* the step made try_alloc_bytes build a raw arena: a buffer id was taken and
\* no typed arena was added
RawArenaCreated ==
    /\ allocator'.next_id = allocator.next_id + 1
    /\ Len(allocator'.typed_arenas) = Len(allocator.typed_arenas)

\* C35: when try_alloc_bytes creates a new raw arena for a request
\* (size, align), the request always fits in it: the allocation in the fresh
\* arena succeeds and the block lies in that arena.
C35_Step ==
    RawArenaCreated =>
        /\ Len(allocator'.raw_arenas) = Len(allocator.raw_arenas) + 1
        /\ \E b \in raws' \ raws :
               b.arena = allocator'.raw_arenas[Len(allocator'.raw_arenas)].id

C35_FreshArenaFits == [][C35_Step]_vars

\* bit i of the byte f
Bit(f, i) == (f \div 2^i) % 2

\* C36: for every header flag byte and every target color, mark(White | Grey |
\* Black) sets the two color bits to exactly that color's encoding (White 00,
\* Grey 01, Black 11) and leaves the other six bits unchanged.
C36_Step ==
    \A color \in HeaderColors :
        Mark(color) =>
            LET f == heap[1].flags
                g == heap'[1].flags
            IN  /\ Bit(g, 0) = (IF color = "White" THEN 0 ELSE 1)
                /\ Bit(g, 1) = (IF color = "Black" THEN 1 ELSE 0)
                /\ \A i \in 2..7 : Bit(g, i) = Bit(f, i)
                /\ g \in FlagBytes

C36_MarkSetsColor == [][C36_Step]_vars

\* a header whose six other bits are all set has been marked MaxMarks times
\* and is grey
C36_Witness ==
    /\ ops.counts = MaxMarks
    /\ heap[1].flags = 253

\* the slot size try_alloc computes for an item of `size` bytes
SlotSizeFor(size) == SIZE_CLASSES[size_class_index_for(Max(size, 8))]

\* arena a has the slot size and a free slot, on its free list or never used
HasFreeSlot(a, slot_size) ==
    /\ a.slot_size = slot_size
    /\ (a.free_list # << >> \/ a.bump < a.slot_count)

\* C37: try_alloc creates a new typed arena only when no existing arena of the
\* matching size class has a free slot (on its free list or never used):
\* allocating after frees reuses the freed slots and does not increase the
\* arena count.
C37_Step ==
    LET n == Len(allocator.typed_arenas)
    IN  /\ Len(allocator'.typed_arenas) > n => items' \ items # {}
        /\ \A it \in items' \ items :
               LET slot_size == SlotSizeFor(it.size)
                   some_free == \E i \in 1..n :
                                   HasFreeSlot(allocator.typed_arenas[i], slot_size)
               IN  /\ Len(allocator'.typed_arenas) > n => ~some_free
                   /\ some_free =>
                        /\ Len(allocator'.typed_arenas) = n
                        /\ \E i \in 1..n :
                             LET a == allocator.typed_arenas[i]
                                 b == allocator'.typed_arenas[i]
                             IN  /\ HasFreeSlot(a, slot_size)
                                 /\ a.id = it.ptr.arena
                                 /\ it.ptr.idx \notin a.bitmap
                                 /\ IF a.free_list # << >>
                                    THEN /\ it.ptr.idx = Head(a.free_list)
                                         /\ b.bump = a.bump
                                    ELSE /\ it.ptr.idx = a.bump
                                         /\ b.bump = a.bump + 1

C37_ArenaOnDemand == [][C37_Step]_vars

\* two arenas of one size class after five allocations that took four slots
\* in all: the first arena is full, a freed slot was handed out again, and the
\* second arena was created for the item that found no free slot
C37_Witness ==
    /\ Len(allocator.typed_arenas) = 2
    /\ allocator.typed_arenas[1].slot_size = allocator.typed_arenas[2].slot_size
    /\ allocator.typed_arenas[1].free_list = << >>
    /\ allocator.typed_arenas[1].bump = allocator.typed_arenas[1].slot_count
    /\ allocator.typed_arenas[1].live = allocator.typed_arenas[1].slot_count
    /\ allocator.typed_arenas[2].bump = 1
    /\ allocator.typed_arenas[2].live = 1
    /\ ops.allocs = 5

\* the tables of the list whose handle is alive / has been dropped
AliveMaps(maps) == SelectSeq(maps, LAMBDA m : m.is_alive)
DeadMaps(maps) == SelectSeq(maps, LAMBDA m : ~m.is_alive)

\* C38: dropping a WeakMap handle only sets its inner table's is_alive flag to
\* false; the inner table stays in the collector's list until the next
\* collect(), which releases it exactly once and removes it from the list,
\* while a table whose handle is alive is pruned but never released by
\* collect().
C38_Step ==
    /\ \A i \in 1..MaxMaps :
           WeakMapDrop(i) =>
               /\ Len(weak_maps') = Len(weak_maps)
               /\ ~weak_maps'[i].is_alive
               /\ weak_maps'[i].entries = weak_maps[i].entries
               /\ \A j \in 1..Len(weak_maps) : j # i => weak_maps'[j] = weak_maps[j]
    /\ IF CycleBegins
       THEN /\ DeadMaps(weak_maps') = << >>
            /\ Len(weak_maps') = Len(AliveMaps(weak_maps))
            /\ \A j \in 1..Len(weak_maps') :
                   weak_maps'[j].entries \subseteq AliveMaps(weak_maps)[j].entries
       ELSE /\ Len(weak_maps') >= Len(weak_maps)
            /\ \A j \in 1..Len(weak_maps) :
                   ~weak_maps[j].is_alive => weak_maps'[j] = weak_maps[j]

C38_DroppedMapReleased == [][C38_Step]_vars

\* a collect() has returned after releasing the table of a dropped handle;
\* an ephemeron made for an entry of that table is still allocated
C38_Witness ==
    /\ hist.last = "completed"
    /\ weak_maps = << >>
    /\ ops.inserts > 0
    /\ LiveEphs(ephs) # {}

\* the number of positions of q that hold x
Occurrences(q, x) == Cardinality({i \in 1..Len(q) : q[i] = x})

\* C39: whenever is_collecting is false, every allocated and not yet freed GC
\* object node appears exactly once in the root queue and every allocated
\* ephemeron node exactly once in the ephemeron queue, and no queue entry
\* points to a freed slot.
C39_QueuesTrackAllocations ==
    (~is_collecting /\ pc # "gone") =>
        /\ \A o \in Objs :
               Occurrences(root_queue, o) =
                   (IF heap[o].st \in {"live", "dropped"} THEN 1 ELSE 0)
        /\ \A e \in Ephs :
               Occurrences(ephemeron_queue, e) =
                   (IF ephs[e].st = "live" THEN 1 ELSE 0)

\* C40: whenever is_collecting is false, every object in the root queue carries
\* the header color that counts as unmarked under the current trace_color (no
\* header is Grey and none already carries the mark color), so that the next
\* mark phase traces the children of every rooted object; this for survivors
\* of a cycle, for objects allocated between cycles and for objects allocated
\* during a cycle.
C40_QueuedAreUnmarked ==
    (~is_collecting /\ pc # "gone") =>
        \A i \in 1..Len(root_queue) :
            heap[root_queue[i]].st = "live" =>
                /\ needs_trace(heap[root_queue[i]].flags, trace_color)
                /\ ~is_grey(heap[root_queue[i]].flags)

====
